---- MODULE Spec2Model ----
(***************************************************************************)
(* A model of the gofp library: the Option, Result and Either containers   *)
(* (package gofp) and the Reader, State and Writer monads (packages        *)
(* reader, state, writer).                                                 *)
(*                                                                         *)
(* The library is a set of pure combinators.  A client program holds a     *)
(* value and applies combinators to it one call at a time; the model's     *)
(* state is what the client holds and one action is one call.  A           *)
(* caller-supplied func is a TLA+ function over the value domain.  The     *)
(* operators that take a caller-supplied func return a record              *)
(* [ret, calls]: ret is the Go return value and calls is the number of     *)
(* times the supplied funcs were invoked (what a counting test double      *)
(* observes).                                                              *)
(***************************************************************************)
EXTENDS Integers, Sequences, FiniteSets, TLC

VARIABLES
    kind,      \* which container type the client holds: Option, Result, Either
    cur,       \* the container the client holds
    last,      \* the last call: [calls, op, arg, recv]
    failCalls, \* supplied-func invocations made by Map/FlatMap on a failure
    out,       \* what the last extraction call gave the client:
               \* <<"return", values>> or <<"panic", panic value>>
    st,        \* the State computation the client holds: a function from
               \* a state to <<value, next state>>
    slast,     \* the last State call: [op, arg, recv]
    sout,      \* the last Run: <<what ran, initial state, value, final state>>
    wr,        \* the Writer the client holds
    wlast,     \* the last Writer call: [op, arg, recv]
    wlogs,     \* the outputs of the writers wr was composed from, one
               \* after the other in the order of composition
    wout,      \* the last Run of wr: <<value, output>>
    rd,        \* the Reader the client holds: a function from an
               \* environment to a value
    rlast,     \* the last Reader call: [op, arg, recv]
    rout,      \* the last Run of rd: <<what ran, environment, value>>
    law,       \* the last evaluation of the two sides of a law:
               \* <<law, type, inputs, left side, right side, calls>>
    comp,      \* the computation the closure client holds: <<type, closure,
               \* combinators it was composed with, type of its value>>
    invoked,   \* what the last call of the closure client was, a constructor
               \* or a Run, and the funcs of the caller it invoked
    runs       \* the last two Runs of comp: <<input, what g gave>>

cvars == <<kind, cur, last, failCalls, out>>

svars == <<st, slast, sout>>

wvars == <<wr, wlast, wlogs, wout>>

rvars == <<rd, rlast, rout>>

lvars == <<law, comp, invoked, runs>>

vars ==
    <<kind, cur, last, failCalls, out, st, slast, sout, wr, wlast, wlogs, wout,
      rd, rlast, rout, law, comp, invoked, runs>>

----------------------------------------------------------------------------
(* Bounds of the model *)

\* values of the type parameter T are 0..MaxVal
MaxVal == 1

\* an error is wrapped at most MaxWrap times
MaxWrap == 2

\* the longest list given to a Sequence
MaxSeq == 3

\* the deepest recursion of a client that builds an Err
MaxDepth == 32

Val == 0..MaxVal

\* the zero value of the value type (var zero T)
Zero == 0

\* the zero value of the Left type used here, a slice
ZeroLeft == <<>>

\* a nil error
NilErr == <<>>

\* an error is the list of its message parts, outermost first
BaseErrs == {<<"e1">>, <<"e2">>}

Errors == BaseErrs \cup {NilErr}

\* caller-supplied funcs on values: identity, successor (wrapping), and the
\* constant funcs to the least and the greatest value
Fns ==
    {[v \in Val |-> v], [v \in Val |-> (v + 1) % (MaxVal + 1)],
     [v \in Val |-> Zero], [v \in Val |-> MaxVal]}

\* predicates: the constant ones and the tests for the zero value
Preds ==
    {[v \in Val |-> b] : b \in BOOLEAN}
    \cup {[v \in Val |-> v = Zero], [v \in Val |-> v # Zero]}

\* error-building funcs: constant ones, and one that looks at the value
ErrFns ==
    {[v \in Val |-> e] : e \in Errors}
    \cup {[v \in Val |-> IF v = Zero THEN <<"e1">> ELSE <<"e2">>]}

\* call stacks of the client at the point of a call, innermost frame first
MainStack == <<"main.main", "runtime.main", "runtime.goexit">>

HelperStack == <<"main.run", "main.main", "runtime.main", "runtime.goexit">>

TestStack == <<"pkg.TestX", "testing.tRunner", "runtime.goexit">>

UserStacks == {MainStack, HelperStack, TestStack}

\* the stack of a call made at depth d of a recursive func of main
RecStack(d) == [i \in 1..d |-> "main.rec"] \o MainStack

\* the outcomes of a call: it returns v, or it panics with v
Return(v) == <<"return", v>>

Panic(v) == <<"panic", v>>

\* the argument list of a func()
NoArgs == <<>>

----------------------------------------------------------------------------
(* Option: src/option.go *)

Some(value) == [value |-> value, valid |-> TRUE]

None == [value |-> Zero, valid |-> FALSE]

OptionMap_NoGuard(o, fn) == [ret |-> Some(fn[o.value]), calls |-> 1]

OptionMap(o, fn) ==
    IF ~o.valid
    THEN [ret |-> None, calls |-> 0]
    ELSE [ret |-> Some(fn[o.value]), calls |-> 1]

OptionFlatMap(o, fn) ==
    IF ~o.valid
    THEN [ret |-> None, calls |-> 0]
    ELSE [ret |-> fn[o.value], calls |-> 1]

Option_TryUnwrap(o) ==
    IF ~o.valid THEN Return(<<Zero, FALSE>>) ELSE Return(<<o.value, TRUE>>)

Option_Unwrap_ZeroOnNone(o) ==
    IF ~o.valid THEN Return(Zero) ELSE Return(o.value)

Option_Unwrap(o) ==
    IF ~o.valid THEN Panic("unwrapping None") ELSE Return(o.value)

Option_UnwrapOr(o, defaultValue) ==
    IF ~o.valid THEN Return(defaultValue) ELSE Return(o.value)

\* fn is a func() T
Option_UnwrapOrElse(o, fn) ==
    IF ~o.valid
    THEN [ret |-> Return(fn[NoArgs]), calls |-> 1]
    ELSE [ret |-> Return(o.value), calls |-> 0]

\* the for loop of OptionSequence
RECURSIVE OptionSequenceLoop(_, _)
OptionSequenceLoop(values, options) ==
    IF options = <<>> THEN values
    ELSE LET o == Head(options)
             fn == [vs \in {values.value} |->
                      OptionMap(o, [v \in {o.value} |-> Append(vs, v)]).ret]
         IN  OptionSequenceLoop(OptionFlatMap(values, fn).ret, Tail(options))

OptionSequence_Prepend(options) ==
    IF \E i \in 1..Len(options) : ~options[i].valid THEN None
    ELSE Some([i \in 1..Len(options) |-> options[Len(options) + 1 - i].value])

OptionSequence(options) == OptionSequenceLoop(Some(<<>>), options)

Option_Map(o, fn) == OptionMap(o, fn)

Option_FlatMap(o, fn) == OptionFlatMap(o, fn)

----------------------------------------------------------------------------
(* Result: src/result.go *)

pcCount == 30

pcSkip == 3

Min(a, b) == IF a < b THEN a ELSE b

\* runtime.Callers(skip, pc): the frames of the goroutine's stack from index
\* skip (0 is runtime.Callers itself), at most Len(pc) of them
RuntimeCallers(skip, n, goroutine) ==
    IF skip >= Len(goroutine) THEN <<>>
    ELSE SubSeq(goroutine, skip + 1, Min(Len(goroutine), skip + n))

\* the loop over frames.Next(): every frame is written, the loop ends after
\* main.main or after the last frame
RECURSIVE FramesUntilMain(_)
FramesUntilMain(pc) ==
    IF pc = <<>> THEN <<>>
    ELSE IF Head(pc) = "main.main" THEN <<Head(pc)>>
    ELSE <<Head(pc)>> \o FramesUntilMain(Tail(pc))

\* stk is the goroutine's stack at the call of callers
callers(stk) ==
    LET pc == RuntimeCallers(pcSkip, pcCount,
                             <<"runtime.Callers", "gofp.callers">> \o stk)
    IN  IF Len(pc) = 0 THEN <<>> ELSE FramesUntilMain(pc)

Ok(value) == [value |-> value, err |-> NilErr, isErr |-> FALSE, stack |-> <<>>]

\* stk is the stack of the caller of Err
Err(err, stk) ==
    [value |-> Zero, err |-> err, isErr |-> TRUE,
     stack |-> callers(<<"gofp.Err">> \o stk)]

FromReturn(v, err, stk) ==
    [value |-> v, err |-> err, isErr |-> (err # NilErr),
     stack |-> IF err # NilErr THEN callers(<<"gofp.FromReturn">> \o stk)
               ELSE <<>>]

ResultMap_DropStack(r, fn) ==
    IF r.isErr
    THEN [ret |-> [value |-> Zero, err |-> r.err, isErr |-> TRUE,
                   stack |-> <<>>],
          calls |-> 0]
    ELSE [ret |-> Ok(fn[r.value]), calls |-> 1]

ResultMap(r, fn) ==
    IF r.isErr
    THEN [ret |-> [value |-> Zero, err |-> r.err, isErr |-> TRUE,
                   stack |-> r.stack],
          calls |-> 0]
    ELSE [ret |-> Ok(fn[r.value]), calls |-> 1]

ResultApply_FunctionFirst(r, fn) ==
    IF fn.isErr
    THEN [ret |-> [value |-> Zero, err |-> fn.err, isErr |-> TRUE,
                   stack |-> fn.stack],
          calls |-> 0]
    ELSE IF r.isErr
    THEN [ret |-> [value |-> Zero, err |-> r.err, isErr |-> TRUE,
                   stack |-> r.stack],
          calls |-> 0]
    ELSE [ret |-> Ok(fn.value[r.value]), calls |-> 1]

\* fn is a Result holding a func
ResultApply(r, fn) ==
    IF r.isErr
    THEN [ret |-> [value |-> Zero, err |-> r.err, isErr |-> TRUE,
                   stack |-> r.stack],
          calls |-> 0]
    ELSE IF fn.isErr
    THEN [ret |-> [value |-> Zero, err |-> fn.err, isErr |-> TRUE,
                   stack |-> fn.stack],
          calls |-> 0]
    ELSE [ret |-> Ok(fn.value[r.value]), calls |-> 1]

ResultFlatMap(r, fn) ==
    IF r.isErr
    THEN [ret |-> [value |-> Zero, err |-> r.err, isErr |-> TRUE,
                   stack |-> r.stack],
          calls |-> 0]
    ELSE [ret |-> fn[r.value], calls |-> 1]

\* the for loop of ResultSequence
RECURSIVE ResultSequenceLoop(_, _)
ResultSequenceLoop(values, results) ==
    IF results = <<>> THEN values
    ELSE LET r == Head(results)
             fn == [vs \in {values.value} |->
                      ResultMap(r, [v \in {r.value} |-> Append(vs, v)]).ret]
         IN  ResultSequenceLoop(ResultFlatMap(values, fn).ret, Tail(results))

ResultSequence_LastFailure(results) ==
    IF \A i \in 1..Len(results) : ~results[i].isErr
    THEN Ok([i \in 1..Len(results) |-> results[i].value])
    ELSE LET k == CHOOSE i \in 1..Len(results) :
                    /\ results[i].isErr
                    /\ \A j \in (i + 1)..Len(results) : ~results[j].isErr
         IN  [value |-> Zero, err |-> results[k].err, isErr |-> TRUE,
              stack |-> results[k].stack]

ResultSequence(results) == ResultSequenceLoop(Ok(<<>>), results)

Result_Map(r, fn) == ResultMap(r, fn)

Result_FlatMap(r, fn) == ResultFlatMap(r, fn)

Result_And(r, res) == IF r.isErr THEN r ELSE res

Result_AndThen(r, fn) ==
    IF r.isErr
    THEN [ret |-> r, calls |-> 0]
    ELSE [ret |-> fn[r.value], calls |-> 1]

Result_Or(r, res) == IF ~r.isErr THEN r ELSE res

\* fn maps an error to a Result
Result_OrElse(r, fn) ==
    IF ~r.isErr
    THEN [ret |-> r, calls |-> 0]
    ELSE [ret |-> fn[r.err], calls |-> 1]

\* stk is the stack of the caller of Ensure
Result_Ensure_NoCapture(r, err, pred, stk) ==
    IF r.isErr
    THEN [ret |-> r, calls |-> 0]
    ELSE IF ~pred[r.value]
    THEN [ret |-> [value |-> Zero, err |-> err, isErr |-> TRUE,
                   stack |-> r.stack],
          calls |-> 1]
    ELSE [ret |-> r, calls |-> 1]

Result_Ensure(r, err, pred, stk) ==
    IF r.isErr
    THEN [ret |-> r, calls |-> 0]
    ELSE IF ~pred[r.value]
    THEN [ret |-> Err(err, <<"gofp.Result.Ensure">> \o stk), calls |-> 1]
    ELSE [ret |-> r, calls |-> 1]

Result_EnsureWith(r, pred, errFn, stk) ==
    IF r.isErr
    THEN [ret |-> r, calls |-> 0]
    ELSE IF ~pred[r.value]
    THEN [ret |-> Err(errFn[r.value], <<"gofp.Result.EnsureWith">> \o stk),
          calls |-> 2]
    ELSE [ret |-> r, calls |-> 1]

\* fmt.Errorf("%s: %w", msg, err): msg in front of the description of err
Errorf(msg, err) ==
    <<msg>> \o (IF err = NilErr THEN <<"%!w(<nil>)">> ELSE err)

Result_Wrap_DropStack(r, msg) ==
    IF ~r.isErr THEN r
    ELSE [value |-> Zero, err |-> Errorf(msg, r.err), isErr |-> TRUE,
          stack |-> <<>>]

Result_Wrap(r, msg) ==
    IF ~r.isErr THEN r
    ELSE [value |-> Zero, err |-> Errorf(msg, r.err), isErr |-> TRUE,
          stack |-> r.stack]

\* fn maps an error to a value
Result_Recover(r, fn) ==
    IF r.isErr
    THEN [ret |-> Ok(fn[r.err]), calls |-> 1]
    ELSE [ret |-> r, calls |-> 0]

Result_RecoverWith_KeepStack(r, fn) ==
    IF r.isErr
    THEN [ret |-> [value |-> fn[r.err].value, err |-> fn[r.err].err,
                   isErr |-> fn[r.err].isErr, stack |-> r.stack],
          calls |-> 1]
    ELSE [ret |-> r, calls |-> 0]

Result_RecoverWith(r, fn) ==
    IF r.isErr
    THEN [ret |-> fn[r.err], calls |-> 1]
    ELSE [ret |-> r, calls |-> 0]

Result_TryUnwrap(r) ==
    IF r.isErr THEN Return(<<Zero, FALSE>>) ELSE Return(<<r.value, TRUE>>)

Result_Unwrap(r) == IF r.isErr THEN Panic(r.err) ELSE Return(r.value)

Result_UnwrapOr(r, defaultValue) ==
    IF r.isErr THEN Return(defaultValue) ELSE Return(r.value)

Result_UnwrapOrElse(r, fn) ==
    IF r.isErr
    THEN [ret |-> Return(fn[NoArgs]), calls |-> 1]
    ELSE [ret |-> Return(r.value), calls |-> 0]

Result_UnwrapErr(r) ==
    IF ~r.isErr THEN Panic("unwrapping Ok") ELSE Return(r.err)

\* the pair (T, error)
Result_ToReturn(r) == <<r.value, r.err>>

Result_StackTrace(r) == IF r.isErr THEN r.stack ELSE <<>>

----------------------------------------------------------------------------
(* Either: src/unnamed/part_004 (either.go) *)

Left(value) == [left |-> value, right |-> Zero, isLeft |-> TRUE]

Right(value) == [left |-> ZeroLeft, right |-> value, isLeft |-> FALSE]

EitherMap(e, fn) ==
    IF e.isLeft
    THEN [ret |-> Left(e.left), calls |-> 0]
    ELSE [ret |-> Right(fn[e.right]), calls |-> 1]

EitherApply_ValueSideFirst(e, efn) ==
    IF e.isLeft THEN [ret |-> Left(e.left), calls |-> 0]
    ELSE IF efn.isLeft THEN [ret |-> Left(efn.left), calls |-> 0]
    ELSE [ret |-> Right(efn.right[e.right]), calls |-> 1]

\* efn is an Either holding a func on the right
EitherApply(e, efn) ==
    IF efn.isLeft THEN [ret |-> Left(efn.left), calls |-> 0]
    ELSE IF e.isLeft THEN [ret |-> Left(e.left), calls |-> 0]
    ELSE [ret |-> Right(efn.right[e.right]), calls |-> 1]

\* efn is an Either holding a func on the right;
\* combine is a func of two left values
EitherApplyMap_Swapped(e, efn, combine) ==
    IF efn.isLeft /\ e.isLeft
    THEN [ret |-> Left(combine[<<e.left, efn.left>>]), calls |-> 1]
    ELSE IF efn.isLeft THEN [ret |-> Left(efn.left), calls |-> 0]
    ELSE IF e.isLeft THEN [ret |-> Left(e.left), calls |-> 0]
    ELSE [ret |-> Right(efn.right[e.right]), calls |-> 1]

EitherApplyMap(e, efn, combine) ==
    IF efn.isLeft /\ e.isLeft
    THEN [ret |-> Left(combine[<<efn.left, e.left>>]), calls |-> 1]
    ELSE IF efn.isLeft THEN [ret |-> Left(efn.left), calls |-> 0]
    ELSE IF e.isLeft THEN [ret |-> Left(e.left), calls |-> 0]
    ELSE [ret |-> Right(efn.right[e.right]), calls |-> 1]

EitherFlatMap(e, fn) ==
    IF e.isLeft
    THEN [ret |-> Left(e.left), calls |-> 0]
    ELSE [ret |-> fn[e.right], calls |-> 1]

\* the for loop of EitherSequence
RECURSIVE EitherSequenceLoop(_, _)
EitherSequenceLoop(values, eithers) ==
    IF eithers = <<>> THEN values
    ELSE LET e == Head(eithers)
             fn == [vs \in {values.right} |->
                      EitherMap(e, [v \in {e.right} |-> Append(vs, v)]).ret]
         IN  EitherSequenceLoop(EitherFlatMap(values, fn).ret, Tail(eithers))

EitherSequence(eithers) == EitherSequenceLoop(Right(<<>>), eithers)

Either_TryUnwrap(e) ==
    IF e.isLeft THEN Return(<<Zero, FALSE>>) ELSE Return(<<e.right, TRUE>>)

Either_Unwrap(e) ==
    IF e.isLeft
    THEN Panic(<<"Cannot unwrap: Either is Left", e.left>>)
    ELSE Return(e.right)

Either_UnwrapOr(e, defaultValue) ==
    IF e.isLeft THEN Return(defaultValue) ELSE Return(e.right)

Either_UnwrapOrElse(e, fn) ==
    IF e.isLeft
    THEN [ret |-> Return(fn[NoArgs]), calls |-> 1]
    ELSE [ret |-> Return(e.right), calls |-> 0]

Either_UnwrapLeft(e) ==
    IF ~e.isLeft
    THEN Panic(<<"Cannot unwrap Left: Either is Right", e.right>>)
    ELSE Return(e.left)

Either_Map(e, fn) == EitherMap(e, fn)

Either_FlatMap(e, fn) == EitherFlatMap(e, fn)

----------------------------------------------------------------------------
(* The validation example: src/examples/validation/main.go.  A string is   *)
(* the sequence of its characters, a ValidationError is the name of its    *)
(* field, and a []ValidationError is a sequence of them.                   *)

User(username, email, age) == <<username, email, age>>

validateUsername(name) ==
    IF Len(name) < 3 THEN Left(<<"username">>) ELSE Right(name)

\* strings.Contains(email, "@")
validateEmail(email) ==
    IF ~(\E i \in 1..Len(email) : email[i] = "@")
    THEN Left(<<"email">>)
    ELSE Right(email)

validateAge(age) == IF age < 18 THEN Left(<<"age">>) ELSE Right(age)

\* append(a, b...), on the slices in lists
appendErrors(lists) == [p \in lists \X lists |-> p[1] \o p[2]]

\* the slices of at most three of the three errors
ValidationErrors ==
    UNION {[1..n -> {"username", "email", "age"}] : n \in 0..3}

\* u is the User to validate; usernames, emails and ages are the values
\* its fields can take
validateUser(u, usernames, emails, ages) ==
    EitherApplyMap(
        validateAge(u[3]),
        EitherApplyMap(
            validateEmail(u[2]),
            EitherApplyMap(
                validateUsername(u[1]),
                Right([username \in usernames |->
                        [email \in emails |->
                          [age \in ages |-> User(username, email, age)]]]),
                appendErrors(ValidationErrors)).ret,
            appendErrors(ValidationErrors)).ret,
        appendErrors(ValidationErrors)).ret

----------------------------------------------------------------------------
(* The inputs of the client's calls *)

\* the left values are slices of error tags
MaxLeft == 2

LeftTags == {"a", "b"}

LeftVals == UNION {[1..n -> LeftTags] : n \in 0..MaxLeft}

BaseLefts == {<<t>> : t \in LeftTags}

\* caller-supplied combine funcs: concatenation in either order, and two
\* that keep one side
Combines ==
    { [p \in LeftVals \X LeftVals |-> p[1] \o p[2]],
      [p \in LeftVals \X LeftVals |-> p[2] \o p[1]],
      [p \in LeftVals \X LeftVals |-> p[1]] }

\* the stack inside a func literal of main that builds an Err
ClosureStack == <<"main.main.func1">> \o MainStack

OptionPool == {None} \cup {Some(v) : v \in Val}

OptionLists == UNION {[1..n -> OptionPool] : n \in 0..MaxSeq}

ResultPool == {Ok(v) : v \in Val} \cup {Err(<<"e2">>, ClosureStack)}

EitherPool == {Right(v) : v \in Val} \cup {Left(l) : l \in BaseLefts}

\* funcs from a value to a Result: constant ones, Ok itself, and one that
\* fails on the zero value
ResultFns ==
    {[v \in Val |-> r] : r \in ResultPool}
    \cup {[v \in Val |-> Ok(v)]}
    \cup {[v \in Val |-> IF v = Zero THEN Err(<<"e1">>, ClosureStack) ELSE Ok(v)]}

\* Results and Eithers that hold a func (Result[func(T) U])
\* the zero value of a func type is the nil func
NilFunc == <<>>

ResultFnPool ==
    {Ok(f) : f \in Fns}
    \cup {[Err(<<"e1">>, ClosureStack) EXCEPT !.value = NilFunc]}

EitherFnPool ==
    {Right(f) : f \in Fns}
    \cup {[Left(l) EXCEPT !.right = NilFunc] : l \in BaseLefts}

\* the Users of the validation example: a short and a long enough name, an
\* email without and with an @, a minor and an adult
Usernames == {<<"a", "b">>, <<"a", "b", "c">>}

Emails == {<<"a">>, <<"a", "@", "b">>}

Ages == {15, 18}

Users == Usernames \X Emails \X Ages

\* the elements of the lists given to ResultSequence: Oks, and Errs with
\* different errors built at different sites
ResultElems ==
    {Ok(v) : v \in Val}
    \cup {Err(<<"e1">>, MainStack), Err(<<"e2">>, HelperStack)}

ResultLists == UNION {[1..n -> ResultElems] : n \in 0..MaxSeq}

EitherLists == UNION {[1..n -> EitherPool] : n \in 0..MaxSeq}

\* the results of n validations, for a constructor of n arguments
ValidationLists == UNION {[1..n -> EitherPool] : n \in 0..MaxSeq}

\* the slices that n validations can accumulate
LeftLists == UNION {[1..n -> LeftTags] : n \in 0..MaxSeq}

\* a curried constructor of n arguments: it builds the list of them
RECURSIVE Curried(_, _)
Curried(args, n) ==
    IF n = 0 THEN args
    ELSE [x \in Val |-> Curried(Append(args, x), n - 1)]

\* the nesting of validateUser, for a list of validation results: the
\* first of the list is applied first, innermost
RECURSIVE ApplyMapAll(_, _)
ApplyMapAll(efn, validations) ==
    IF validations = <<>> THEN efn
    ELSE ApplyMapAll(EitherApplyMap(Head(validations), efn,
                                    appendErrors(LeftLists)).ret,
                     Tail(validations))

\* funcs without arguments, for UnwrapOrElse
Thunks == {[u \in {NoArgs} |-> v] : v \in Val}

\* every error a Result of the model can carry
RECURSIVE WrappedErrs(_)
WrappedErrs(n) ==
    IF n = 0 THEN Errors
    ELSE LET prev == WrappedErrs(n - 1)
         IN  prev \cup {Errorf("ctx", e) : e \in prev}

AllErrs == WrappedErrs(MaxWrap)

\* caller-supplied error handlers: constant ones, and one that looks at the
\* error
ErrToVal == {[e \in AllErrs |-> v] : v \in Val} \cup {[e \in AllErrs |-> Min(Len(e), MaxVal)]}

ErrToResult ==
    {[e \in AllErrs |-> r] : r \in ResultPool}
    \cup {[e \in AllErrs |-> IF e = NilErr THEN Ok(Zero) ELSE Err(e, ClosureStack)]}

----------------------------------------------------------------------------
(* The client: one action per call *)

IsFailure(k, c) ==
    CASE k = "Option" -> ~c.valid
      [] k = "Result" -> c.isErr
      [] k = "Either" -> c.isLeft

MapOps ==
    {"Option.Map", "Option.FlatMap", "OptionMap", "OptionFlatMap",
     "Result.Map", "Result.FlatMap", "ResultMap", "ResultFlatMap",
     "Either.Map", "Either.FlatMap", "EitherMap", "EitherFlatMap"}

\* no extraction call since the last call that built a container
NoOut == <<>>

\* the client calls op on the container it holds; r is [ret, calls]
Call(op, arg, r) ==
    /\ cur' = r.ret
    /\ last' = [calls |-> r.calls, op |-> op, arg |-> arg, recv |-> cur]
    /\ failCalls' = IF op \in MapOps /\ IsFailure(kind, cur)
                    THEN failCalls + r.calls ELSE failCalls
    /\ out' = NoOut
    /\ UNCHANGED <<kind, svars, wvars, rvars, lvars>>

\* the client builds a new container of kind k
New(k, op, arg, c) ==
    /\ kind' = k
    /\ cur' = c
    /\ last' = [calls |-> 0, op |-> op, arg |-> arg, recv |-> c]
    /\ out' = NoOut
    /\ UNCHANGED <<failCalls, svars, wvars, rvars, lvars>>

Pure(x) == [ret |-> x, calls |-> 0]

\* the client calls an extraction method on the container it holds, which
\* it keeps; r is [ret, calls] with ret the outcome of the call
Extract(op, arg, r) ==
    /\ out' = r.ret
    /\ last' = [calls |-> r.calls, op |-> op, arg |-> arg, recv |-> cur]
    /\ UNCHANGED <<kind, cur, failCalls, svars, wvars, rvars, lvars>>

NewSome == \E v \in Val : New("Option", "Some", v, Some(v))

NewNone == New("Option", "None", <<>>, None)

NewOk == \E v \in Val : New("Result", "Ok", v, Ok(v))

NewErr == \E e \in Errors, stk \in UserStacks : New("Result", "Err", <<e, stk>>, Err(e, stk))

NewFromReturn == \E v \in Val, e \in Errors, stk \in UserStacks : New("Result", "FromReturn", <<v, e, stk>>, FromReturn(v, e, stk))

NewLeft == \E l \in BaseLefts : New("Either", "Left", l, Left(l))

NewRight == \E v \in Val : New("Either", "Right", v, Right(v))

\* the extraction methods: one call of one of them
DoOptionExtract ==
    /\ kind = "Option"
    /\ \/ Extract("Option.TryUnwrap", <<>>, Pure(Option_TryUnwrap(cur)))
       \/ Extract("Option.Unwrap", <<>>, Pure(Option_Unwrap(cur)))
       \/ \E d \in Val : Extract("Option.UnwrapOr", d, Pure(Option_UnwrapOr(cur, d)))
       \/ \E fn \in Thunks :
             Extract("Option.UnwrapOrElse", fn, Option_UnwrapOrElse(cur, fn))

DoResultExtract ==
    /\ kind = "Result"
    /\ \/ Extract("Result.TryUnwrap", <<>>, Pure(Result_TryUnwrap(cur)))
       \/ Extract("Result.Unwrap", <<>>, Pure(Result_Unwrap(cur)))
       \/ \E d \in Val : Extract("Result.UnwrapOr", d, Pure(Result_UnwrapOr(cur, d)))
       \/ \E fn \in Thunks :
             Extract("Result.UnwrapOrElse", fn, Result_UnwrapOrElse(cur, fn))
       \/ Extract("Result.UnwrapErr", <<>>, Pure(Result_UnwrapErr(cur)))

DoEitherExtract ==
    /\ kind = "Either"
    /\ \/ Extract("Either.TryUnwrap", <<>>, Pure(Either_TryUnwrap(cur)))
       \/ Extract("Either.Unwrap", <<>>, Pure(Either_Unwrap(cur)))
       \/ \E d \in Val : Extract("Either.UnwrapOr", d, Pure(Either_UnwrapOr(cur, d)))
       \/ \E fn \in Thunks :
             Extract("Either.UnwrapOrElse", fn, Either_UnwrapOrElse(cur, fn))
       \/ Extract("Either.UnwrapLeft", <<>>, Pure(Either_UnwrapLeft(cur)))

\* the value a Some, Ok or Right holds
ValueOf(k, c) == IF k = "Either" THEN c.right ELSE c.value

\* what the funcs of Unwrapping unwrap
Unwrapped(k, v) ==
    CASE k = "Option" -> Option_Unwrap(IF v = Zero THEN None ELSE Some(v))
      [] k = "Result" ->
            Result_Unwrap(IF v = Zero THEN Err(<<"e2">>, ClosureStack) ELSE Ok(v))
      [] k = "Either" -> Either_Unwrap(IF v = Zero THEN Left(<<"a">>) ELSE Right(v))

\* OptionMap, ResultMap or EitherMap with a func that unwraps a container
\* it computes from its argument.  None of the three has a deferred call
\* or a recover(): when the func panics the panic reaches the client, and
\* the client keeps the container it has.
DoMapUnwrapping ==
    /\ kind \in {"Option", "Result", "Either"}
    /\ LET fn == [v \in Val |-> Unwrapped(kind, v)]
           ret == [v \in Val |-> fn[v][2]]
       IN  IF ~IsFailure(kind, cur) /\ fn[ValueOf(kind, cur)][1] = "panic"
           THEN Extract("Map(Unwrap)", <<>>,
                        [ret |-> fn[ValueOf(kind, cur)], calls |-> 1])
           ELSE Call("Map(Unwrap)", <<>>,
                     CASE kind = "Option" -> OptionMap(cur, ret)
                       [] kind = "Result" -> ResultMap(cur, ret)
                       [] kind = "Either" -> EitherMap(cur, ret))

DoOptionMap == kind = "Option" /\ \E fn \in Fns : Call("OptionMap", fn, OptionMap(cur, fn))

DoOptionFlatMap == kind = "Option" /\ \E fn \in [Val -> OptionPool] : Call("OptionFlatMap", fn, OptionFlatMap(cur, fn))

DoOption_Map == kind = "Option" /\ \E fn \in Fns : Call("Option.Map", fn, Option_Map(cur, fn))

DoOption_FlatMap == kind = "Option" /\ \E fn \in [Val -> OptionPool] : Call("Option.FlatMap", fn, Option_FlatMap(cur, fn))

\* the client holds an Option of a list from now on
DoOptionSequence == \E options \in OptionLists : New("OptionList", "OptionSequence", options, OptionSequence(options))

DoResultMap == kind = "Result" /\ \E fn \in Fns : Call("ResultMap", fn, ResultMap(cur, fn))

DoResultFlatMap == kind = "Result" /\ \E fn \in ResultFns : Call("ResultFlatMap", fn, ResultFlatMap(cur, fn))

DoResult_Map == kind = "Result" /\ \E fn \in Fns : Call("Result.Map", fn, Result_Map(cur, fn))

DoResult_FlatMap == kind = "Result" /\ \E fn \in ResultFns : Call("Result.FlatMap", fn, Result_FlatMap(cur, fn))

DoResultApply == kind = "Result" /\ \E fn \in ResultFnPool : Call("ResultApply", fn, ResultApply(cur, fn))

DoResult_And == kind = "Result" /\ \E res \in ResultPool : Call("Result.And", res, Pure(Result_And(cur, res)))

DoResult_AndThen == kind = "Result" /\ \E fn \in ResultFns : Call("Result.AndThen", fn, Result_AndThen(cur, fn))

DoResult_Or == kind = "Result" /\ \E res \in ResultPool : Call("Result.Or", res, Pure(Result_Or(cur, res)))

DoResult_OrElse == kind = "Result" /\ \E fn \in ErrToResult : Call("Result.OrElse", fn, Result_OrElse(cur, fn))

DoResult_Ensure == kind = "Result" /\ \E err \in Errors, pred \in Preds, stk \in UserStacks : Call("Result.Ensure", <<err, pred, stk>>, Result_Ensure(cur, err, pred, stk))

DoResult_EnsureWith == kind = "Result" /\ \E pred \in Preds, errFn \in ErrFns, stk \in UserStacks : Call("Result.EnsureWith", <<pred, errFn, stk>>, Result_EnsureWith(cur, pred, errFn, stk))

\* the number of Wraps is bounded
DoResult_Wrap == kind = "Result" /\ cur.err \in WrappedErrs(MaxWrap - 1) /\ Call("Result.Wrap", "ctx", Pure(Result_Wrap(cur, "ctx")))

DoResult_Recover == kind = "Result" /\ \E fn \in ErrToVal : Call("Result.Recover", fn, Result_Recover(cur, fn))

DoResult_RecoverWith == kind = "Result" /\ \E fn \in ErrToResult : Call("Result.RecoverWith", fn, Result_RecoverWith(cur, fn))

DoResult_ToReturn == kind = "Result" /\ Extract("Result.ToReturn", <<>>, Pure(Return(Result_ToReturn(cur))))

DoEitherMap == kind = "Either" /\ \E fn \in Fns : Call("EitherMap", fn, EitherMap(cur, fn))

DoEitherFlatMap == kind = "Either" /\ \E fn \in [Val -> EitherPool] : Call("EitherFlatMap", fn, EitherFlatMap(cur, fn))

DoEither_Map == kind = "Either" /\ \E fn \in Fns : Call("Either.Map", fn, Either_Map(cur, fn))

DoEither_FlatMap == kind = "Either" /\ \E fn \in [Val -> EitherPool] : Call("Either.FlatMap", fn, Either_FlatMap(cur, fn))

DoEitherApply == kind = "Either" /\ \E efn \in EitherFnPool : Call("EitherApply", efn, EitherApply(cur, efn))

\* the left values stay within LeftVals, the domain of the combine funcs
DoEitherApplyMap == kind = "Either" /\ cur.left \in LeftVals /\ \E efn \in EitherFnPool, combine \in Combines : Call("EitherApplyMap", <<efn, combine>>, EitherApplyMap(cur, efn, combine))

\* the call sites of the client of the diagnostics: those of UserStacks,
\* and sites so deep that main.main is the last frame within the bound of
\* the snapshot, the first beyond it, and further away
CallStacks == UserStacks \cup {RecStack(d) : d \in {pcCount - 1, pcCount, MaxDepth}}

NewErrAt == \E e \in Errors, stk \in CallStacks : New("Result", "Err", <<e, stk>>, Err(e, stk))

NewFromReturnAt == \E v \in Val, e \in Errors, stk \in CallStacks : New("Result", "FromReturn", <<v, e, stk>>, FromReturn(v, e, stk))

DoResult_EnsureAt == kind = "Result" /\ \E err \in Errors, pred \in Preds, stk \in CallStacks : Call("Result.Ensure", <<err, pred, stk>>, Result_Ensure(cur, err, pred, stk))

DoResult_EnsureWithAt == kind = "Result" /\ \E pred \in Preds, errFn \in ErrFns, stk \in CallStacks : Call("Result.EnsureWith", <<pred, errFn, stk>>, Result_EnsureWith(cur, pred, errFn, stk))

\* the client holds a Result or an Either of a list from now on
DoResultSequence == \E results \in ResultLists : New("ResultList", "ResultSequence", results, ResultSequence(results))

DoEitherSequence == \E eithers \in EitherLists : New("EitherList", "EitherSequence", eithers, EitherSequence(eithers))

\* the client holds the Either validateUser returned from now on
DoValidateUser == \E u \in Users : New("Validated", "validateUser", u, validateUser(u, Usernames, Emails, Ages))

DoApplyMapAll == \E validations \in ValidationLists : New("Validated", "EitherApplyMap...", validations, ApplyMapAll(Right(Curried(<<>>, Len(validations))), validations))

InitContainers ==
    /\ kind = "Option"
    /\ cur = None
    /\ last = [calls |-> 0, op |-> "None", arg |-> <<>>, recv |-> None]
    /\ failCalls = 0
    /\ out = NoOut

Next ==
    \/ NewSome \/ NewNone \/ NewOk \/ NewErr \/ NewFromReturn
    \/ NewLeft \/ NewRight
    \/ DoOptionMap \/ DoOptionFlatMap \/ DoOption_Map \/ DoOption_FlatMap
    \/ DoResultMap \/ DoResultFlatMap \/ DoResult_Map \/ DoResult_FlatMap
    \/ DoResultApply \/ DoResult_And \/ DoResult_AndThen
    \/ DoResult_Or \/ DoResult_OrElse
    \/ DoResult_Ensure \/ DoResult_EnsureWith \/ DoResult_Wrap
    \/ DoResult_Recover \/ DoResult_RecoverWith \/ DoResult_ToReturn
    \/ DoEitherMap \/ DoEitherFlatMap \/ DoEither_Map \/ DoEither_FlatMap
    \/ DoEitherApply \/ DoEitherApplyMap
    \/ DoOptionExtract \/ DoResultExtract \/ DoEitherExtract
    \/ DoMapUnwrapping

\* the client of the diagnostics: it builds Results at call sites of any
\* depth
NextDiagnostic ==
    \/ NewOk \/ NewErrAt \/ NewFromReturnAt
    \/ DoResult_EnsureAt \/ DoResult_EnsureWithAt

\* the client of the functions on lists: each call takes a list and gives
\* the client a new container
NextLists ==
    \/ DoOptionSequence \/ DoResultSequence \/ DoEitherSequence
    \/ DoValidateUser \/ DoApplyMapAll

----------------------------------------------------------------------------
(* Claims about Option, Result and Either, checked under Spec *)

\* C1: when the receiver of a Map or FlatMap call (method or free function,
\* of Option, Result or Either) is already None, Err or Left, the supplied
\* func is not invoked and the call returns the same failure again; so no
\* chain of such calls ever invokes a supplied func after a failure.
C1_ShortCircuit ==
    /\ failCalls = 0
    /\ (last.op \in MapOps /\ IsFailure(kind, last.recv)) =>
          /\ last.calls = 0
          /\ IsFailure(kind, cur)
          /\ kind = "Result" => cur.err = last.recv.err
          /\ kind = "Either" => cur.left = last.recv.left

C1_Witness ==
    /\ kind = "Option"
    /\ last.op = "OptionMap"
    /\ ~last.recv.valid
    /\ ~cur.valid

PropagatingOps ==
    {"ResultMap", "Result.Map", "ResultFlatMap", "Result.FlatMap",
     "ResultApply", "Result.And", "Result.AndThen", "Result.Ensure",
     "Result.EnsureWith"}

\* C2: a Result combinator that passes an existing Err through (ResultMap,
\* ResultFlatMap, ResultApply, And, AndThen, Ensure, EnsureWith on an Err,
\* and ResultApply of an Err func to an Ok) returns an Err with exactly the
\* error and the diagnostic of the Err it propagated; nothing is captured at
\* the propagating call.
C2_ErrPropagatesUnchanged ==
    /\ (last.op \in PropagatingOps /\ last.recv.isErr) =>
          /\ cur.isErr
          /\ cur.err = last.recv.err
          /\ Result_StackTrace(cur) = Result_StackTrace(last.recv)
    /\ (last.op = "ResultApply" /\ ~last.recv.isErr /\ last.arg.isErr) =>
          /\ cur.isErr
          /\ cur.err = last.arg.err
          /\ Result_StackTrace(cur) = Result_StackTrace(last.arg)

\* an Err built in main.run is passed through ResultMap
C2_Witness ==
    /\ kind = "Result"
    /\ last.op = "ResultMap"
    /\ last.recv.isErr
    /\ last.recv.stack = <<"main.run", "main.main">>
    /\ cur.stack = <<"main.run", "main.main">>

\* C6: EitherApplyMap(e, efn, combine): with both Left the result is
\* Left(combine(efn's left, e's left)); with exactly one Left that Left is
\* returned and no supplied func is invoked; with both Right the result is
\* Right(efn's func applied to e's value).
C6_ApplyMapOperandOrder ==
    last.op = "EitherApplyMap" =>
        LET e == last.recv
            efn == last.arg[1]
            combine == last.arg[2]
        IN  /\ (efn.isLeft /\ e.isLeft) =>
                  /\ cur.isLeft
                  /\ cur.left = combine[<<efn.left, e.left>>]
                  /\ last.calls = 1
            /\ (efn.isLeft /\ ~e.isLeft) =>
                  cur.isLeft /\ cur.left = efn.left /\ last.calls = 0
            /\ (~efn.isLeft /\ e.isLeft) =>
                  cur.isLeft /\ cur.left = e.left /\ last.calls = 0
            /\ (~efn.isLeft /\ ~e.isLeft) =>
                  ~cur.isLeft /\ cur.right = efn.right[e.right]

\* both sides are Left, with different values, and combine is not symmetric
C6_Witness ==
    /\ kind = "Either"
    /\ last.op = "EitherApplyMap"
    /\ last.recv.isLeft
    /\ last.arg[1].isLeft
    /\ last.arg[2][<<last.arg[1].left, last.recv.left>>]
         # last.arg[2][<<last.recv.left, last.arg[1].left>>]
    /\ cur.left = last.arg[1].left \o last.recv.left

\* C7: a Result that is Ok carries no diagnostic, and a Result that is Err
\* carries a non-nil error.
C7_ResultInvariant ==
    kind = "Result" =>
        /\ ~cur.isErr => (cur.stack = <<>> /\ Result_StackTrace(cur) = <<>>)
        /\ cur.isErr => cur.err # NilErr

\* C11: EitherApply(e, efn) is Right(efn's func applied to e's value) only
\* when both are Right; when either is Left the result is Left and the func
\* is not applied; when both are Left the result carries efn's left value
\* and e's is discarded.
C11_EitherApply ==
    (kind = "Either" /\ last.op = "EitherApply") =>
        LET e == last.recv
            efn == last.arg
        IN  /\ (~e.isLeft /\ ~efn.isLeft) =>
                  /\ cur = Right(efn.right[e.right])
                  /\ last.calls = 1
            /\ (e.isLeft \/ efn.isLeft) =>
                  /\ cur.isLeft
                  /\ last.calls = 0
            /\ efn.isLeft => cur.left = efn.left
            /\ (e.isLeft /\ ~efn.isLeft) => cur.left = e.left

\* both operands are Left, with different left values
C11_Witness ==
    /\ kind = "Either"
    /\ last.op = "EitherApply"
    /\ last.recv.isLeft
    /\ last.arg.isLeft
    /\ last.recv.left # last.arg.left
    /\ cur = Left(last.arg.left)

\* the diagnostic d ends with the frames of the call site whose stack is stk
CapturedAt(d, stk) ==
    /\ d # <<>>
    /\ \E i \in 1..Len(d) : SubSeq(d, i, Len(d)) = FramesUntilMain(stk)

\* C12: Ensure(err, pred) and EnsureWith(pred, errFn) on Ok(v) return the
\* receiver unchanged when pred(v) holds, and an Err carrying err
\* (respectively errFn(v)) with a diagnostic captured at that call when
\* pred(v) fails; on an Err they return the receiver unchanged, with its
\* error and diagnostic, and invoke neither pred nor errFn.
C12_Ensure ==
    (kind = "Result" /\ last.op \in {"Result.Ensure", "Result.EnsureWith"}) =>
        LET r == last.recv
            with == last.op = "Result.EnsureWith"
            pred == IF with THEN last.arg[1] ELSE last.arg[2]
            stk == last.arg[3]
        IN  /\ r.isErr => (cur = r /\ last.calls = 0)
            /\ (~r.isErr /\ pred[r.value]) => cur = r
            /\ (~r.isErr /\ ~pred[r.value]) =>
                  /\ cur.isErr
                  /\ cur.err = IF with THEN last.arg[2][r.value] ELSE last.arg[1]
                  /\ CapturedAt(cur.stack, stk)

\* an Ok whose value fails pred, turned into an Err at a call in main.run
C12_Witness ==
    /\ kind = "Result"
    /\ last.op = "Result.Ensure"
    /\ ~last.recv.isErr
    /\ ~last.arg[2][last.recv.value]
    /\ last.arg[3] = HelperStack
    /\ cur.isErr
    /\ cur.err = <<"e1">>
    /\ cur.stack # <<>>

\* C13: Wrap(msg) on an Err returns an Err whose error is msg chained in
\* front of the receiver's error and whose diagnostic is the receiver's;
\* Wrap on an Ok returns the receiver unchanged; so no number of Wraps
\* changes the diagnostic.
C13_WrapKeepsDiagnostic ==
    (kind = "Result" /\ last.op = "Result.Wrap") =>
        LET r == last.recv
        IN  /\ ~r.isErr => cur = r
            /\ r.isErr =>
                  /\ cur.isErr
                  /\ cur.stack = r.stack
                  /\ cur.err = <<last.arg>> \o
                        (IF r.err = NilErr THEN <<"%!w(<nil>)">> ELSE r.err)

\* the second Wrap of an Err that has a diagnostic
C13_Witness ==
    /\ kind = "Result"
    /\ last.op = "Result.Wrap"
    /\ last.recv.isErr
    /\ last.recv.err = <<"ctx", "e1">>
    /\ cur.err = <<"ctx", "ctx", "e1">>
    /\ cur.stack = last.recv.stack
    /\ cur.stack # <<>>

\* C14: Recover(fn) turns an Err carrying e into Ok(fn(e)) and RecoverWith(fn)
\* turns it into the Result fn(e), with fn's own error and diagnostic; both
\* return an Ok unchanged without invoking fn.
C14_Recover ==
    (kind = "Result" /\ last.op \in {"Result.Recover", "Result.RecoverWith"}) =>
        LET r == last.recv
            fn == last.arg
        IN  /\ ~r.isErr => (cur = r /\ last.calls = 0)
            /\ (r.isErr /\ last.op = "Result.Recover") =>
                  /\ cur = Ok(fn[r.err])
                  /\ cur.stack = <<>>
            /\ (r.isErr /\ last.op = "Result.RecoverWith") => cur = fn[r.err]

\* RecoverWith on an Err, with an fn that fails with another error at
\* another site
C14_Witness ==
    /\ kind = "Result"
    /\ last.op = "Result.RecoverWith"
    /\ last.recv.isErr
    /\ cur.isErr
    /\ cur.err # last.recv.err
    /\ cur.stack # last.recv.stack
    /\ cur.stack = callers(<<"gofp.Err">> \o ClosureStack)

\* C15: ToReturn returns (v, nil) for every Ok(v) and (the zero value of T,
\* e) for every Err carrying e, whichever constructor or combinator produced
\* the Result, and whatever its diagnostic.
C15_ToReturn ==
    (kind = "Result" /\ last.op = "Result.ToReturn") =>
        IF cur.isErr
        THEN out = Return(<<Zero, cur.err>>)
        ELSE out = Return(<<cur.value, NilErr>>)

\* C22: for every Result c, c.Map(identity) and c.FlatMap(Ok) are c again:
\* the same case, the same value and error given by ToReturn, and the same
\* diagnostic given by StackTrace.
C22_ResultIdentities ==
    (kind = "Result"
       /\ \/ /\ last.op \in {"ResultMap", "Result.Map"}
             /\ last.arg = [v \in Val |-> v]
          \/ /\ last.op \in {"ResultFlatMap", "Result.FlatMap"}
             /\ last.arg = [v \in Val |-> Ok(v)])
    => /\ cur.isErr = last.recv.isErr
       /\ Result_ToReturn(cur) = Result_ToReturn(last.recv)
       /\ Result_StackTrace(cur) = Result_StackTrace(last.recv)

\* C17: OptionSequence(list) is Some of the list of the contained values, in
\* the order of the list, when every element is Some (Some of the empty
\* list for the empty list), and None when an element at any position is
\* None.
C17_OptionSequence ==
    (kind = "OptionList" /\ last.op = "OptionSequence") =>
        LET options == last.arg
        IN  IF \A i \in 1..Len(options) : options[i].valid
            THEN /\ cur.valid
                 /\ Len(cur.value) = Len(options)
                 /\ \A i \in 1..Len(options) : cur.value[i] = options[i].value
            ELSE cur = None

\* a list of MaxSeq elements, all Some, the first and the last with
\* different values
C17_Witness ==
    /\ kind = "OptionList"
    /\ last.op = "OptionSequence"
    /\ Len(last.arg) = MaxSeq
    /\ \A i \in 1..MaxSeq : last.arg[i].valid
    /\ last.arg[1].value # last.arg[MaxSeq].value
    /\ cur.valid
    /\ cur.value[1] = last.arg[1].value
    /\ cur.value[MaxSeq] = last.arg[MaxSeq].value

\* C20: Option.Unwrap on None, Result.Unwrap on Err, Result.UnwrapErr on
\* Ok, Either.Unwrap on Left and Either.UnwrapLeft on Right panic and
\* return nothing, and on the other case each returns the contained value;
\* UnwrapOr, UnwrapOrElse and TryUnwrap return in both cases; a panic of
\* an Unwrap inside a func given to Map reaches the client, which gets no
\* None, Err or Left in its place.
C20_UnwrapPanics ==
    LET r == last.recv
        op == last.op
    IN  /\ op = "Option.Unwrap" =>
              IF r.valid THEN out = Return(r.value) ELSE out[1] = "panic"
        /\ op = "Result.Unwrap" =>
              IF ~r.isErr THEN out = Return(r.value) ELSE out[1] = "panic"
        /\ op = "Result.UnwrapErr" =>
              IF r.isErr THEN out = Return(r.err) ELSE out[1] = "panic"
        /\ op = "Either.Unwrap" =>
              IF ~r.isLeft THEN out = Return(r.right) ELSE out[1] = "panic"
        /\ op = "Either.UnwrapLeft" =>
              IF r.isLeft THEN out = Return(r.left) ELSE out[1] = "panic"
        /\ op \in {"Option.TryUnwrap", "Option.UnwrapOr", "Option.UnwrapOrElse",
                   "Result.TryUnwrap", "Result.UnwrapOr", "Result.UnwrapOrElse",
                   "Either.TryUnwrap", "Either.UnwrapOr", "Either.UnwrapOrElse"}
              => out[1] = "return"
        /\ (op = "Map(Unwrap)" /\ ~IsFailure(kind, r) /\ ValueOf(kind, r) = Zero) =>
              /\ out # NoOut
              /\ out[1] = "panic"
              /\ cur = r

\* Unwrap on None has panicked
C20_Witness ==
    /\ kind = "Option"
    /\ last.op = "Option.Unwrap"
    /\ ~last.recv.valid
    /\ out = Panic("unwrapping None")

\* C27: ResultApply(r, fn) with r and fn both Err carries r's error and
\* r's diagnostic; with exactly one of them Err it carries that one's
\* error and diagnostic; the func is applied only when both are Ok.
C27_ResultApply ==
    (kind = "Result" /\ last.op = "ResultApply") =>
        LET r == last.recv
            fn == last.arg
        IN  /\ r.isErr =>
                  /\ cur.isErr
                  /\ cur.err = r.err
                  /\ Result_StackTrace(cur) = Result_StackTrace(r)
            /\ (~r.isErr /\ fn.isErr) =>
                  /\ cur.isErr
                  /\ cur.err = fn.err
                  /\ Result_StackTrace(cur) = Result_StackTrace(fn)
            /\ (r.isErr \/ fn.isErr) => last.calls = 0
            /\ (~r.isErr /\ ~fn.isErr) =>
                  /\ cur = Ok(fn.value[r.value])
                  /\ last.calls = 1

\* both are Err, with different errors and different diagnostics
C27_Witness ==
    /\ kind = "Result"
    /\ last.op = "ResultApply"
    /\ last.recv.isErr
    /\ last.arg.isErr
    /\ last.recv.err # last.arg.err
    /\ last.recv.stack # last.arg.stack
    /\ cur.err = last.recv.err
    /\ cur.stack = last.recv.stack

LibraryFrames ==
    {"runtime.Callers", "gofp.callers", "gofp.Err", "gofp.FromReturn",
     "gofp.Result.Ensure", "gofp.Result.EnsureWith"}

\* C26: the diagnostic of an Err just built by Err, by FromReturn, or by
\* Ensure or EnsureWith on an Ok, is a snapshot of the call chain of the
\* call site, innermost frame first, of at most pcCount frames, with no
\* frame of the library in it, and it ends with main.main when main.main
\* is among the first pcCount frames of the chain.
C26_Diagnostic ==
    (kind = "Result" /\ cur.isErr
       /\ \/ last.op \in {"Err", "FromReturn"}
          \/ last.op \in {"Result.Ensure", "Result.EnsureWith"} /\ ~last.recv.isErr)
    => LET d == cur.stack
           stk == IF last.op = "Err" THEN last.arg[2] ELSE last.arg[3]
       IN  /\ Len(d) <= pcCount
           /\ \A i \in 1..Len(d) : d[i] \notin LibraryFrames
           /\ d # <<>>
           /\ d = SubSeq(stk, 1, Len(d))
           /\ (\E i \in 1..Min(pcCount, Len(stk)) : stk[i] = "main.main") =>
                 d[Len(d)] = "main.main"

\* the left values of the Lefts of a list of Eithers, in list order
RECURSIVE LeftsOf(_)
LeftsOf(validations) ==
    IF validations = <<>> THEN <<>>
    ELSE (IF Head(validations).isLeft THEN Head(validations).left ELSE <<>>)
         \o LeftsOf(Tail(validations))

\* C25: the nested EitherApplyMap of a curried constructor of n arguments
\* over n validation results is Right(constructed value) when all n are
\* Right, and otherwise the Left of the left values of all the failing
\* validations, combined in the order of application, the first applied
\* first; validateUser is that for username, email and age.
C25_ApplyMapAccumulates ==
    /\ (kind = "Validated" /\ last.op = "EitherApplyMap...") =>
          LET validations == last.arg
              n == Len(validations)
          IN  IF \A i \in 1..n : ~validations[i].isLeft
              THEN /\ ~cur.isLeft
                   /\ cur.right = [i \in 1..n |-> validations[i].right]
              ELSE /\ cur.isLeft
                   /\ cur.left = LeftsOf(validations)
    /\ (kind = "Validated" /\ last.op = "validateUser") =>
          LET u == last.arg
              errs == (IF Len(u[1]) < 3 THEN <<"username">> ELSE <<>>)
                      \o (IF u[2] \in {e \in Emails : \A i \in 1..Len(e) : e[i] # "@"}
                          THEN <<"email">> ELSE <<>>)
                      \o (IF u[3] < 18 THEN <<"age">> ELSE <<>>)
          IN  IF errs = <<>>
              THEN ~cur.isLeft /\ cur.right = User(u[1], u[2], u[3])
              ELSE cur.isLeft /\ cur.left = errs

\* MaxSeq validations, all failing, the first and the last with different
\* errors
C25_Witness ==
    /\ kind = "Validated"
    /\ last.op = "EitherApplyMap..."
    /\ Len(last.arg) = MaxSeq
    /\ \A i \in 1..MaxSeq : last.arg[i].isLeft
    /\ last.arg[1].left # last.arg[MaxSeq].left
    /\ cur.isLeft
    /\ Len(cur.left) = MaxSeq
    /\ cur.left[1] = last.arg[1].left[1]
    /\ cur.left[MaxSeq] = last.arg[MaxSeq].left[1]

----------------------------------------------------------------------------
(* State: src/state/state.go.  A State[S, A] wraps a func(S) (A, S); it is  *)
(* the function from a state to the pair <<value, next state>>.  The       *)
(* constructors take the state type S, as Pure[S], Get[S]() do.            *)

\* gofp.UnitValue, the only value of Unit; a number outside Val
UnitValue == -1

StateRun(s, state) == s[state]

StatePure(S, a) == [s \in S |-> <<a, s>>]

StateGet(S) == [state \in S |-> <<state, state>>]

StateGets(S, f) == [s \in S |-> <<f[s], s>>]

StatePut_KeepsState(S, state) == [s \in S |-> <<UnitValue, s>>]

StatePut(S, state) == [s \in S |-> <<UnitValue, state>>]

StateModify(S, f) == [s \in S |-> <<UnitValue, f[s]>>]

StateMap(s, f) ==
    [state \in DOMAIN s |->
        LET r == s[state]
            a == r[1]
            newState == r[2]
        IN  <<f[a], newState>>]

\* f is a State whose value is a func
StateApply_Parallel(s, f) ==
    [state \in DOMAIN s |->
        LET r1 == s[state]
            r2 == f[state]
        IN  <<r2[1][r1[1]], r1[2]>>]

StateApply(s, f) ==
    [state \in DOMAIN s |->
        LET r1 == s[state]
            a == r1[1]
            s1 == r1[2]
            r2 == f[s1]
            g == r2[1]
            s2 == r2[2]
        IN  <<g[a], s2>>]

StateFlatMap_SameState(s, f) ==
    [state \in DOMAIN s |-> <<f[s[state][1]][state][1], f[s[state][1]][state][2]>>]

\* f maps a value to a State
StateFlatMap(s, f) ==
    [state \in DOMAIN s |->
        LET r == s[state]
            a == r[1]
            newState == r[2]
        IN  f[a][newState]]

State_Map(s, f) == StateMap(s, f)

State_FlatMap(s, f) == StateFlatMap(s, f)

\* the values a State can produce: the domain of the func literals that
\* Zip passes to FlatMap and Map
ValuesOf(s) == {s[state][1] : state \in DOMAIN s}

\* f is a func of two values, a function on pairs
StateZip(sa, sb, f) ==
    StateFlatMap(sa, [a \in ValuesOf(sa) |->
        StateMap(sb, [b \in ValuesOf(sb) |-> f[<<a, b>>]])])

\* the func literal of Sequence: append(vs, a)
AppendFn(sa, sb) ==
    [p \in ValuesOf(sa) \X ValuesOf(sb) |-> Append(p[1], p[2])]

RECURSIVE SequenceLoop(_, _)
SequenceLoop(values, states) ==
    IF states = <<>> THEN values
    ELSE SequenceLoop(StateZip(values, Head(states),
                               AppendFn(values, Head(states))),
                      Tail(states))

StateSequence_Reversed(S, states) ==
    IF states = <<>> THEN StatePure(S, <<>>)
    ELSE SequenceLoop(StatePure(S, <<>>),
                      [i \in 1..Len(states) |-> states[Len(states) + 1 - i]])

\* S is the state type of the elements
StateSequence(S, states) == SequenceLoop(StatePure(S, <<>>), states)

----------------------------------------------------------------------------
(* Inputs of the State client.  The state type S is Val; a value is a Val  *)
(* or the Unit value.                                                       *)

StateVals == Val \cup {UnitValue}

\* funcs on the state, for Gets and Modify
StateFns ==
    {[s \in Val |-> s],
     [s \in Val |-> (s + 1) % (MaxVal + 1)],
     [s \in Val |-> Zero]}

\* funcs on the value, for Map
ValueFns ==
    {[a \in StateVals |-> a],
     [a \in StateVals |-> IF a \in Val THEN (a + 1) % (MaxVal + 1) ELSE Zero],
     [a \in StateVals |-> Zero]}

\* funcs from a value to a State, for FlatMap
StateKleislis ==
    {[a \in StateVals |-> StatePure(Val, a)],
     [a \in StateVals |-> StateGet(Val)],
     [a \in StateVals |-> StatePut(Val, IF a \in Val THEN a ELSE Zero)],
     [a \in StateVals |-> StateModify(Val, [s \in Val |-> (s + 1) % (MaxVal + 1)])],
     [a \in StateVals |->
        StateGets(Val, [s \in Val |-> IF a \in Val THEN (a + s) % (MaxVal + 1) ELSE s])]}

\* States whose value is a func, for Apply
StateFnPool ==
    {StatePure(Val, f) : f \in ValueFns}
    \cup {StateGets(Val, [s \in Val |->
            [a \in StateVals |-> IF a \in Val THEN (a + s) % (MaxVal + 1) ELSE s]]),
          StateMap(StateModify(Val, [s \in Val |-> (s + 1) % (MaxVal + 1)]),
                   [u \in {UnitValue} |-> [a \in StateVals |-> a]]),
          StateMap(StatePut(Val, Zero),
                   [u \in {UnitValue} |-> [a \in StateVals |-> a]])}

\* funcs of two values, for Zip
ZipFns ==
    {[p \in StateVals \X StateVals |-> p[1]],
     [p \in StateVals \X StateVals |-> p[2]],
     [p \in StateVals \X StateVals |->
        IF p[1] \in Val /\ p[2] \in Val THEN (p[1] + p[2]) % (MaxVal + 1) ELSE Zero]}

\* the States a test builds from the primitives
StatePool ==
    {StatePure(Val, a) : a \in Val}
    \cup {StateGet(Val)}
    \cup {StateGets(Val, f) : f \in StateFns}
    \cup {StatePut(Val, n) : n \in Val}
    \cup {StateModify(Val, f) : f \in StateFns}

\* the elements of the lists given to Sequence
SequenceElems ==
    {StateGet(Val), StatePure(Val, MaxVal), StatePut(Val, Zero),
     StateModify(Val, [s \in Val |-> (s + 1) % (MaxVal + 1)])}

StateLists == UNION {[1..n -> SequenceElems] : n \in 0..MaxSeq}

\* no Run yet of the State the client holds
NoRun == <<>>

----------------------------------------------------------------------------
(* The State client: it builds a State from a primitive, applies one       *)
(* combinator per step to the State it holds, and runs it.                 *)

NewState(op, arg, s) ==
    /\ st' = s
    /\ slast' = [op |-> op, arg |-> arg, recv |-> s]
    /\ sout' = NoRun
    /\ UNCHANGED <<cvars, wvars, rvars, lvars>>

StateCall(op, arg, s) ==
    /\ slast.op # "Sequence"   \* the funcs of the pools take a Val or Unit
    /\ st' = s
    /\ slast' = [op |-> op, arg |-> arg, recv |-> st]
    /\ sout' = NoRun
    /\ UNCHANGED <<cvars, wvars, rvars, lvars>>

NewStatePure == \E a \in Val : NewState("Pure", a, StatePure(Val, a))

NewStateGet == NewState("Get", <<>>, StateGet(Val))

NewStateGets == \E f \in StateFns : NewState("Gets", f, StateGets(Val, f))

NewStatePut == \E n \in Val : NewState("Put", n, StatePut(Val, n))

NewStateModify == \E f \in StateFns : NewState("Modify", f, StateModify(Val, f))

DoStateSequence ==
    \E states \in StateLists :
        NewState("Sequence", states, StateSequence(Val, states))

DoStateMap == \E f \in ValueFns : StateCall("Map", f, StateMap(st, f))

DoState_Map == \E f \in ValueFns : StateCall("State.Map", f, State_Map(st, f))

DoStateFlatMap ==
    \E f \in StateKleislis : StateCall("FlatMap", f, StateFlatMap(st, f))

DoState_FlatMap ==
    \E f \in StateKleislis : StateCall("State.FlatMap", f, State_FlatMap(st, f))

DoStateApply == \E f \in StateFnPool : StateCall("Apply", f, StateApply(st, f))

DoStateZip ==
    \E sb \in StatePool, f \in ZipFns :
        StateCall("Zip", <<sb, f>>, StateZip(st, sb, f))

DoStateRun ==
    \E state \in Val :
        /\ sout' = <<"Run", state>> \o StateRun(st, state)
        /\ UNCHANGED <<st, slast, cvars, wvars, rvars, lvars>>

\* the ledger of the state tests: a balance starting at 0, a deposit of 10,
\* a withdrawal of 3, then a read of the balance
Ledger ==
    StateFlatMap(
        StateFlatMap(StateModify(Int, [s \in Int |-> s + 10]),
                     [u \in {UnitValue} |-> StateModify(Int, [s \in Int |-> s - 3])]),
        [u \in {UnitValue} |-> StateGets(Int, [s \in Int |-> s])])

DoLedger ==
    /\ sout' = <<"Ledger", 0>> \o StateRun(Ledger, 0)
    /\ UNCHANGED <<st, slast, cvars, wvars, rvars, lvars>>

InitState ==
    /\ st = StatePure(Val, Zero)
    /\ slast = [op |-> "Pure", arg |-> Zero, recv |-> StatePure(Val, Zero)]
    /\ sout = NoRun

NextState ==
    \/ NewStatePure \/ NewStateGet \/ NewStateGets \/ NewStatePut
    \/ NewStateModify \/ DoStateSequence
    \/ DoStateMap \/ DoState_Map \/ DoStateFlatMap \/ DoState_FlatMap
    \/ DoStateApply \/ DoStateZip \/ DoStateRun \/ DoLedger

----------------------------------------------------------------------------
(* Claims about State, checked under SpecState *)

\* C3: FlatMap(s, f).Run(s0) runs s on s0 giving (a, s1), then runs f(a)
\* on s1 giving (b, s2), and returns (b, s2); and the ledger that starts
\* at 0, adds 10, subtracts 3 and reads the state gives value 7, state 7.
C3_FlatMapThreadsState ==
    /\ slast.op \in {"FlatMap", "State.FlatMap"} =>
          \A s0 \in Val :
              LET r1 == StateRun(slast.recv, s0)
                  a == r1[1]
                  s1 == r1[2]
                  r2 == StateRun(slast.arg[a], s1)
              IN  StateRun(st, s0) = r2
    /\ (sout # NoRun /\ sout[1] = "Ledger") => sout = <<"Ledger", 0, 7, 7>>

\* s changes the state and the State f returns gives another result on the
\* changed state than on the initial one
C3_Witness ==
    /\ slast.op = "FlatMap"
    /\ \E s0 \in Val :
          LET r1 == StateRun(slast.recv, s0)
          IN  /\ r1[2] # s0
              /\ StateRun(slast.arg[r1[1]], s0) # StateRun(slast.arg[r1[1]], r1[2])
              /\ sout = <<"Run", s0>> \o StateRun(slast.arg[r1[1]], r1[2])

\* C9: Apply(s, sf).Run(s0) runs s on s0 giving (a, s1), then sf on s1
\* giving (g, s2), and returns (g(a), s2): sf runs on the state s left.
C9_ApplyThreadsLeftToRight ==
    slast.op = "Apply" =>
        \A s0 \in Val :
            LET r1 == StateRun(slast.recv, s0)
                r2 == StateRun(slast.arg, r1[2])
            IN  StateRun(st, s0) = <<r2[1][r1[1]], r2[2]>>

\* s changes the state, and sf gives another func or state on s0 than on s1
C9_Witness ==
    /\ slast.op = "Apply"
    /\ \E s0 \in Val :
          LET r1 == StateRun(slast.recv, s0)
              r2 == StateRun(slast.arg, r1[2])
              p2 == StateRun(slast.arg, s0)
          IN  /\ r1[2] # s0
              /\ <<p2[1][r1[1]], p2[2]>> # <<r2[1][r1[1]], r2[2]>>
              /\ sout = <<"Run", s0, r2[1][r1[1]], r2[2]>>

\* the elements run in list order, each on the state the previous one left:
\* <<values, final state>>
RECURSIVE RunInOrder(_, _, _)
RunInOrder(states, values, s) ==
    IF states = <<>> THEN <<values, s>>
    ELSE LET r == StateRun(Head(states), s)
         IN  RunInOrder(Tail(states), Append(values, r[1]), r[2])

\* s1.FlatMap(_ => s2)...FlatMap(_ => sn)
RECURSIVE ManualChain(_, _)
ManualChain(s, states) ==
    IF states = <<>> THEN s
    ELSE ManualChain(StateFlatMap(s, [a \in ValuesOf(s) |-> Head(states)]),
                     Tail(states))

\* C8: Sequence([s1..sn]).Run(s0) runs the elements in list order, each on
\* the state the previous one left; the values are [v1..vn] in list order,
\* the final state is that of s1.FlatMap(_ => s2)...FlatMap(_ => sn) run on
\* s0, and the empty list gives the empty list and s0.
C8_SequenceIsManualChaining ==
    slast.op = "Sequence" =>
        \A s0 \in Val :
            LET states == slast.arg
                r == StateRun(st, s0)
            IN  /\ r = RunInOrder(states, <<>>, s0)
                /\ Len(r[1]) = Len(states)
                /\ states = <<>> => r = <<<<>>, s0>>
                /\ states # <<>> =>
                      r[2] = StateRun(ManualChain(Head(states), Tail(states)), s0)[2]

\* a list of MaxSeq elements with distinct values, the first changing the
\* state the last one reads
C8_Witness ==
    /\ slast.op = "Sequence"
    /\ Len(slast.arg) = MaxSeq
    /\ \E s0 \in Val :
          /\ sout = <<"Run", s0>> \o StateRun(st, s0)
          /\ sout[3][1] # sout[3][Len(sout[3])]
          /\ StateRun(slast.arg[1], s0)[2] # s0
          /\ sout[4] # s0

\* C18: for every initial state s, Pure(v).Run(s) = (v, s), Get().Run(s) =
\* (s, s), Gets(f).Run(s) = (f(s), s), Put(n).Run(s) = (Unit, n) whatever s
\* is, and Modify(f).Run(s) = (Unit, f(s)).
C18_StatePrimitives ==
    \A s \in Val :
        LET r == StateRun(st, s)
            arg == slast.arg
        IN  /\ slast.op = "Pure" => r = <<arg, s>>
            /\ slast.op = "Get" => r = <<s, s>>
            /\ slast.op = "Gets" => r = <<arg[s], s>>
            /\ slast.op = "Put" => r = <<UnitValue, arg>>
            /\ slast.op = "Modify" => r = <<UnitValue, arg[s]>>

\* Put(n) has been run on a state other than n
C18_Witness ==
    /\ slast.op = "Put"
    /\ sout # NoRun
    /\ sout[1] = "Run"
    /\ sout[2] # slast.arg
    /\ sout = <<"Run", sout[2], UnitValue, slast.arg>>

----------------------------------------------------------------------------
(* Writer: src/writer/writer.go.  A Writer[W, A] holds a func() (A, W) and *)
(* a Monoid[W]; the func has no input, so g is the pair <<value, output>>  *)
(* it returns.  An output (a string, a slice) is a sequence.               *)

\* the monoids of the writer tests
Monoids == {"StringMonoid", "SliceMonoid"}

\* the instances of Monoid[[]string] a caller can mix in one computation:
\* that of the tests, and one of the caller's whose Append puts b in front
SliceMonoids == {"SliceMonoid", "PrependMonoid"}

MonoidEmpty(m) ==
    CASE m = "StringMonoid" -> <<>>
      [] m = "SliceMonoid" -> <<>>
      [] m = "PrependMonoid" -> <<>>

MonoidAppend(m, a, b) ==
    CASE m = "StringMonoid" -> a \o b
      [] m = "SliceMonoid" -> a \o b
      [] m = "PrependMonoid" -> b \o a

WriterRun(w) == w.g

WriterPure_WithOutput(a, m) == [g |-> <<a, <<"x">>>>, monoid |-> m]

WriterPure(a, m) == [g |-> <<a, MonoidEmpty(m)>>, monoid |-> m]

WriterTell(w, m) == [g |-> <<Zero, w>>, monoid |-> m]

WriterTellWithValue(a, w, m) == [g |-> <<a, w>>, monoid |-> m]

WriterListen_Silent(w) ==
    [g |-> <<[Value |-> w.g[1], Log |-> w.g[2]], MonoidEmpty(w.monoid)>>,
     monoid |-> w.monoid]

WriterListen(w) ==
    LET r == WriterRun(w)
        a == r[1]
        log == r[2]
    IN  [g |-> <<[Value |-> a, Log |-> log], log>>, monoid |-> w.monoid]

WriterMap(w, f) ==
    LET r == w.g
        a == r[1]
        log == r[2]
    IN  [g |-> <<f[a], log>>, monoid |-> w.monoid]

WriterApply_FunctionFirst(w, f) ==
    [g |-> <<f.g[1][w.g[1]], MonoidAppend(w.monoid, f.g[2], w.g[2])>>,
     monoid |-> w.monoid]

\* f is a Writer whose value is a func
WriterApply(w, f) ==
    LET r1 == WriterRun(w)
        a == r1[1]
        logA == r1[2]
        r2 == WriterRun(f)
        fn == r2[1]
        logF == r2[2]
    IN  [g |-> <<fn[a], MonoidAppend(w.monoid, logA, logF)>>,
         monoid |-> w.monoid]

WriterFlatMap_Reversed(w, f) ==
    [g |-> <<f[w.g[1]].g[1], MonoidAppend(w.monoid, f[w.g[1]].g[2], w.g[2])>>,
     monoid |-> w.monoid]

WriterFlatMap_RunsTwice(w, f) ==
    [g |-> <<f[w.g[1]].g[1],
             MonoidAppend(w.monoid, MonoidAppend(w.monoid, w.g[2], w.g[2]),
                          f[w.g[1]].g[2])>>,
     monoid |-> w.monoid]

WriterFlatMap_SecondMonoid(w, f) ==
    [g |-> <<f[w.g[1]].g[1],
             MonoidAppend(f[w.g[1]].monoid, w.g[2], f[w.g[1]].g[2])>>,
     monoid |-> w.monoid]

\* f maps a value to a Writer
WriterFlatMap(w, f) ==
    LET r1 == w.g
        a == r1[1]
        w1 == r1[2]
        wb == f[a]
        r2 == wb.g
        b == r2[1]
        w2 == r2[2]
    IN  [g |-> <<b, MonoidAppend(w.monoid, w1, w2)>>, monoid |-> w.monoid]

Writer_Map(w, f) == WriterMap(w, f)

Writer_FlatMap(w, f) == WriterFlatMap(w, f)

\* f is a func of two values, a function on pairs
WriterZip(wa, wb, f) ==
    WriterFlatMap(wa, [a \in {wa.g[1]} |->
        WriterMap(wb, [b \in {wb.g[1]} |-> f[<<a, b>>]])])

----------------------------------------------------------------------------
(* Inputs of the Writer client *)

MaxLog == 3

\* the outputs a test gives to Tell and TellWithValue
Logs == {<<>>, <<"x">>, <<"y">>, <<"x", "y">>}

\* funcs from a value to a Writer, for FlatMap
WriterKleislis(m) ==
    {[a \in Val |-> WriterPure(a, m)],
     [a \in Val |-> WriterTellWithValue(a, <<"x">>, m)],
     [a \in Val |-> WriterTellWithValue((a + 1) % (MaxVal + 1), <<"y">>, m)],
     [a \in Val |-> WriterTell(IF a = Zero THEN <<"x">> ELSE <<"y">>, m)]}

\* Writers whose value is a func, for Apply
WriterFnPool(m) ==
    {WriterPure(f, m) : f \in Fns}
    \cup {WriterTellWithValue(f, <<"y">>, m) : f \in Fns}

\* Writers with a plain value, for Zip
WriterPool(m) ==
    {WriterPure(a, m) : a \in Val}
    \cup {WriterTellWithValue(a, w, m) : a \in Val, w \in Logs \ {<<>>}}

WriterZipFns ==
    {[p \in Val \X Val |-> p[1]],
     [p \in Val \X Val |-> p[2]],
     [p \in Val \X Val |-> (p[1] + p[2]) % (MaxVal + 1)]}

----------------------------------------------------------------------------
(* The Writer client: it builds a Writer, composes it with one combinator  *)
(* per step, and runs it.  An output stays within MaxLog elements.         *)

NewWriter(op, arg, w) ==
    /\ wr' = w
    /\ wlast' = [op |-> op, arg |-> arg, recv |-> w]
    /\ wlogs' = WriterRun(w)[2]
    /\ wout' = NoRun
    /\ UNCHANGED <<cvars, svars, rvars, lvars>>

\* log is the output of the writer wr is composed with, <<>> for Map
WriterCall(op, arg, w, log) ==
    \* the funcs of the pools take a Val
    /\ wlast.op # "Listen" \/ op = "Listen.FlatMap"
    /\ Len(WriterRun(w)[2]) <= MaxLog
    /\ wr' = w
    /\ wlast' = [op |-> op, arg |-> arg, recv |-> wr]
    /\ wlogs' = wlogs \o log
    /\ wout' = NoRun
    /\ UNCHANGED <<cvars, svars, rvars, lvars>>

NewWriterPure ==
    \E a \in Val, m \in Monoids : NewWriter("Pure", a, WriterPure(a, m))

NewWriterTell ==
    \E w \in Logs, m \in Monoids : NewWriter("Tell", w, WriterTell(w, m))

NewWriterTellWithValue ==
    \E a \in Val, w \in Logs, m \in Monoids :
        NewWriter("TellWithValue", <<a, w>>, WriterTellWithValue(a, w, m))

DoWriterListen ==
    /\ wlast.op # "Listen"
    /\ wr' = WriterListen(wr)
    /\ wlast' = [op |-> "Listen", arg |-> <<>>, recv |-> wr]
    /\ wout' = NoRun
    /\ UNCHANGED <<wlogs, cvars, svars, rvars, lvars>>

\* the Writer that Listen returned, composed with a func that takes the
\* Value of what it is given and goes on as f
DoWriterListenFlatMap ==
    /\ wlast.op = "Listen"
    /\ \E f \in WriterKleislis(wr.monoid) :
          LET l == WriterRun(wr)[1]
              fl == [x \in {l} |-> f[x.Value]]
          IN  WriterCall("Listen.FlatMap", f, WriterFlatMap(wr, fl),
                         WriterRun(fl[l])[2])

DoWriterMap == \E f \in Fns : WriterCall("Map", f, WriterMap(wr, f), <<>>)

DoWriter_Map ==
    \E f \in Fns : WriterCall("Writer.Map", f, Writer_Map(wr, f), <<>>)

DoWriterFlatMap ==
    \E f \in WriterKleislis(wr.monoid) :
        WriterCall("FlatMap", f, WriterFlatMap(wr, f),
                   WriterRun(f[WriterRun(wr)[1]])[2])

DoWriter_FlatMap ==
    \E f \in WriterKleislis(wr.monoid) :
        WriterCall("Writer.FlatMap", f, Writer_FlatMap(wr, f),
                   WriterRun(f[WriterRun(wr)[1]])[2])

DoWriterApply ==
    \E f \in WriterFnPool(wr.monoid) :
        WriterCall("Apply", f, WriterApply(wr, f), WriterRun(f)[2])

DoWriterZip ==
    \E wb \in WriterPool(wr.monoid), f \in WriterZipFns :
        WriterCall("Zip", <<wb, f>>, WriterZip(wr, wb, f), WriterRun(wb)[2])

DoWriterRun ==
    /\ wout' = WriterRun(wr)
    /\ UNCHANGED <<wr, wlast, wlogs, cvars, svars, rvars, lvars>>

InitWriter ==
    /\ wr = WriterPure(Zero, "StringMonoid")
    /\ wlast = [op |-> "Pure", arg |-> Zero, recv |-> WriterPure(Zero, "StringMonoid")]
    /\ wlogs = MonoidEmpty("StringMonoid")
    /\ wout = NoRun

NextWriter ==
    \/ NewWriterPure \/ NewWriterTell \/ NewWriterTellWithValue
    \/ DoWriterListen \/ DoWriterListenFlatMap
    \/ DoWriterMap \/ DoWriter_Map \/ DoWriterFlatMap \/ DoWriter_FlatMap
    \/ DoWriterApply \/ DoWriterZip \/ DoWriterRun

----------------------------------------------------------------------------
(* Claims about Writer, checked under SpecWriter *)

\* C4: FlatMap(w, f).Run() returns (b, append(log1, log2)) where
\* (a, log1) = w.Run() and (b, log2) = f(a).Run(), log1 on the left; and the
\* output of a chain of FlatMap, Zip and Map is its writers' outputs
\* combined from left to right.
C4_FlatMapAppendsInOrder ==
    /\ wlast.op \in {"FlatMap", "Writer.FlatMap"} =>
          LET r1 == WriterRun(wlast.recv)
              r2 == WriterRun(wlast.arg[r1[1]])
          IN  WriterRun(wr) = <<r2[1], r1[2] \o r2[2]>>
    /\ wlast.op # "Listen" => WriterRun(wr)[2] = wlogs
    /\ wout # NoRun => wout[2] = wlogs

\* both outputs are non-empty and the reverse order is another output
C4_Witness ==
    /\ wlast.op = "FlatMap"
    /\ LET log1 == WriterRun(wlast.recv)[2]
           log2 == WriterRun(wlast.arg[WriterRun(wlast.recv)[1]])[2]
       IN  /\ log1 \o log2 # log2 \o log1
           /\ wout # NoRun
           /\ wout[2] = log1 \o log2
           /\ Len(wout[2]) = MaxLog

\* C10: Apply(w, wf).Run() returns (fn(a), append(logA, logF)) where
\* (a, logA) = w.Run() and (fn, logF) = wf.Run(), for every monoid.
C10_ApplyAppendsValueLogFirst ==
    wlast.op = "Apply" =>
        LET r1 == WriterRun(wlast.recv)
            r2 == WriterRun(wlast.arg)
        IN  WriterRun(wr) = <<r2[1][r1[1]], r1[2] \o r2[2]>>

C10_Witness ==
    /\ wlast.op = "Apply"
    /\ wr.monoid = "SliceMonoid"
    /\ LET logA == WriterRun(wlast.recv)[2]
           logF == WriterRun(wlast.arg)[2]
       IN  /\ logA \o logF # logF \o logA
           /\ wout = <<WriterRun(wlast.arg)[1][WriterRun(wlast.recv)[1]], logA \o logF>>

\* C19: Listen(w).Run() returns the value {Value: a, Log: log} and the
\* output log, where (a, log) = w.Run(): the output is that of w; and a
\* FlatMap after Listen accumulates the output a FlatMap after w would.
C19_ListenKeepsOutput ==
    /\ wlast.op = "Listen" =>
          LET r == WriterRun(wlast.recv)
          IN  /\ WriterRun(wr) = <<[Value |-> r[1], Log |-> r[2]], r[2]>>
              /\ wout # NoRun => wout = <<[Value |-> r[1], Log |-> r[2]], r[2]>>
    /\ wlast.op = "Listen.FlatMap" =>
          LET l == WriterRun(wlast.recv)[1]
              w == WriterTellWithValue(l.Value, l.Log, wlast.recv.monoid)
          IN  /\ WriterRun(wlast.recv)[2] = l.Log
              /\ WriterRun(wr) = WriterRun(WriterFlatMap(w, wlast.arg))

\* the Listen of a writer with an output has been run
C19_Witness ==
    /\ wlast.op = "Listen"
    /\ WriterRun(wlast.recv)[2] # <<>>
    /\ wout # NoRun
    /\ wout[1].Log = WriterRun(wlast.recv)[2]
    /\ wout[2] = WriterRun(wlast.recv)[2]

----------------------------------------------------------------------------
(* Reader: src/reader/reader.go.  A Reader[E, A] wraps a func(E) A.  A Go   *)
(* func can have effects, so the func is the function from an environment  *)
(* to the pair <<value, ran>>: ran lists, in the order they ran, the funcs  *)
(* given to New that the call invoked.  The constructors take the          *)
(* environment type E.                                                     *)

ReaderRun(r, env) == r[env]

ReaderNew(f) == f

ReaderPure(E, a) == ReaderNew([e \in E |-> <<a, <<>>>>])

ReaderAsk(E) == ReaderNew([e \in E |-> <<e, <<>>>>])

ReaderLocal_NoOverride(r, f) == ReaderNew([e \in DOMAIN f |-> ReaderRun(r, e)])

ReaderLocal(r, f) == ReaderNew([e \in DOMAIN f |-> ReaderRun(r, f[e])])

ReaderMap(r, f) == [e \in DOMAIN r |-> <<f[r[e][1]], r[e][2]>>]

\* f is a Reader whose value is a func; in f.g(e)(r.g(e)) Go calls f.g(e)
\* first, r.g(e) second
ReaderApply(r, f) ==
    [e \in DOMAIN r |->
        LET fe == f[e]
            re == r[e]
        IN  <<fe[1][re[1]], fe[2] \o re[2]>>]

ReaderFlatMap_OtherEnv(r, f) ==
    [e \in DOMAIN r |->
        LET re == r[e]
            fe == f[re[1]][re[1]]
        IN  <<fe[1], re[2] \o fe[2]>>]

\* f maps a value to a Reader
ReaderFlatMap(r, f) ==
    [e \in DOMAIN r |->
        LET re == r[e]
            fe == f[re[1]][e]
        IN  <<fe[1], re[2] \o fe[2]>>]

Reader_Map(r, f) == ReaderMap(r, f)

Reader_FlatMap(r, f) == ReaderFlatMap(r, f)

\* f is a func of two values, a function on pairs
ReaderZip(ra, rb, f) ==
    ReaderFlatMap(ra, [a \in {ra[e][1] : e \in DOMAIN ra} |->
        ReaderMap(rb, [b \in {rb[e][1] : e \in DOMAIN rb} |-> f[<<a, b>>]])])

----------------------------------------------------------------------------
(* Inputs of the Reader client.  The environment type E is Val, and so is  *)
(* the type of the values.                                                 *)

MaxRan == 2

\* the func fn as the client gives it to New: name tells which func ran
Func(fn, name) == [e \in DOMAIN fn |-> <<fn[e], <<name>>>>]

\* funcs from a value to a Reader, for FlatMap
ReaderKleislis ==
    {[a \in Val |-> ReaderPure(Val, a)],
     [a \in Val |-> ReaderAsk(Val)],
     [a \in Val |-> ReaderNew(Func([e \in Val |-> (a + e) % (MaxVal + 1)], "f(a)"))]}

\* Readers whose value is a func, for Apply
ReaderFnPool ==
    {ReaderPure(Val, f) : f \in Fns}
    \cup {ReaderNew(Func([e \in Val |-> [a \in Val |-> (a + e) % (MaxVal + 1)]], "rf"))}

\* the second Readers of Zip
ReaderPool == {ReaderNew(Func(f, "rb")) : f \in Fns} \cup {ReaderAsk(Val)}

\* the funcs of r that run on some environment
RanOf(r) == {r[e][2] : e \in DOMAIN r}

----------------------------------------------------------------------------
(* The Reader client: it builds a Reader, applies one combinator per step  *)
(* to the Reader it holds, and runs it on an environment of its choice.    *)
(* A Reader of the client invokes at most MaxRan funcs given to New.       *)

ReaderCall(op, arg, recv, r) ==
    /\ \A ran \in RanOf(r) : Len(ran) <= MaxRan
    /\ rd' = r
    /\ rlast' = [op |-> op, arg |-> arg, recv |-> recv]
    /\ rout' = NoRun
    /\ UNCHANGED <<cvars, svars, wvars, lvars>>

NewReaderPure ==
    \E a \in Val : ReaderCall("Pure", a, ReaderPure(Val, a), ReaderPure(Val, a))

NewReaderNew ==
    \E f \in Fns :
        ReaderCall("New", f, ReaderNew(Func(f, "ra")), ReaderNew(Func(f, "ra")))

NewReaderAsk == ReaderCall("Ask", <<>>, ReaderAsk(Val), ReaderAsk(Val))

DoReaderLocal == \E f \in Fns : ReaderCall("Local", f, rd, ReaderLocal(rd, f))

DoReaderMap == \E f \in Fns : ReaderCall("Map", f, rd, ReaderMap(rd, f))

DoReader_Map == \E f \in Fns : ReaderCall("Reader.Map", f, rd, Reader_Map(rd, f))

DoReaderFlatMap ==
    \E f \in ReaderKleislis : ReaderCall("FlatMap", f, rd, ReaderFlatMap(rd, f))

DoReader_FlatMap ==
    \E f \in ReaderKleislis :
        ReaderCall("Reader.FlatMap", f, rd, Reader_FlatMap(rd, f))

DoReaderApply ==
    \E f \in ReaderFnPool : ReaderCall("Apply", f, rd, ReaderApply(rd, f))

DoReaderZip ==
    \E rb \in ReaderPool, f \in WriterZipFns :
        ReaderCall("Zip", <<rb, f>>, rd, ReaderZip(rd, rb, f))

\* the Reader the client holds, run on env
DoReaderRun ==
    \E env \in Val :
        /\ rout' = <<"Run", env, ReaderRun(rd, env)>>
        /\ UNCHANGED <<rd, rlast, cvars, svars, wvars, lvars>>

\* the Reader the last call was made on, run on env; after a Local it is
\* the reader the Local was built from
DoReaderRunRecv ==
    \E env \in Val :
        /\ rout' = <<"RunRecv", env, ReaderRun(rlast.recv, env)>>
        /\ UNCHANGED <<rd, rlast, cvars, svars, wvars, lvars>>

InitReader ==
    /\ rd = ReaderAsk(Val)
    /\ rlast = [op |-> "Ask", arg |-> <<>>, recv |-> ReaderAsk(Val)]
    /\ rout = NoRun

NextReader ==
    \/ NewReaderPure \/ NewReaderNew \/ NewReaderAsk
    \/ DoReaderLocal \/ DoReaderMap \/ DoReader_Map
    \/ DoReaderFlatMap \/ DoReader_FlatMap \/ DoReaderApply \/ DoReaderZip
    \/ DoReaderRun \/ DoReaderRunRecv

----------------------------------------------------------------------------
(* Claims about Reader, checked under SpecReader *)

\* C5: Local(r, f).Run(e) equals r.Run(f(e)) for every reader r, func f and
\* environment e, on every Run; Local(Ask(), f).Run(env) = f(env); and the
\* reader r itself, run separately on env, still sees env.
C5_LocalIsScoped ==
    rlast.op = "Local" =>
        /\ \A e \in Val :
              ReaderRun(rd, e) = ReaderRun(rlast.recv, rlast.arg[e])
        /\ (rout # NoRun /\ rout[1] = "Run") =>
              rout[3] = ReaderRun(rlast.recv, rlast.arg[rout[2]])
        /\ rlast.recv = ReaderAsk(Val) =>
              /\ \A env \in Val : ReaderRun(rd, env)[1] = rlast.arg[env]
              /\ (rout # NoRun /\ rout[1] = "RunRecv") => rout[3][1] = rout[2]

\* Local(Ask(), f) has been run on an env that f changes
C5_Witness ==
    /\ rlast.op = "Local"
    /\ rlast.recv = ReaderAsk(Val)
    /\ rout # NoRun
    /\ rout[1] = "Run"
    /\ rlast.arg[rout[2]] # rout[2]
    /\ rout[3][1] = rlast.arg[rout[2]]

\* C16: FlatMap(r, f).Run(e) equals f(r.Run(e)).Run(e), both stages run on
\* the same e; Zip(ra, rb, combine).Run(e) equals combine(ra.Run(e),
\* rb.Run(e)), and everything ra runs has run before rb begins.
C16_FlatMapZipShareEnv ==
    /\ rlast.op \in {"FlatMap", "Reader.FlatMap"} =>
          \A e \in Val :
              LET first == ReaderRun(rlast.recv, e)
                  second == ReaderRun(rlast.arg[first[1]], e)
              IN  ReaderRun(rd, e) = <<second[1], first[2] \o second[2]>>
    /\ rlast.op = "Zip" =>
          \A e \in Val :
              LET a == ReaderRun(rlast.recv, e)
                  b == ReaderRun(rlast.arg[1], e)
              IN  ReaderRun(rd, e) = <<rlast.arg[2][<<a[1], b[1]>>], a[2] \o b[2]>>

\* a Zip whose two readers both run a func and give different values on
\* the environment of the Run
C16_Witness ==
    /\ rlast.op = "Zip"
    /\ rout # NoRun
    /\ rout[1] = "Run"
    /\ LET a == ReaderRun(rlast.recv, rout[2])
           b == ReaderRun(rlast.arg[1], rout[2])
       IN  /\ a[1] # b[1]
           /\ a[2] # <<>>
           /\ b[2] # <<>>
           /\ a[2] \o b[2] # b[2] \o a[2]
           /\ rout[3] = <<rlast.arg[2][<<a[1], b[1]>>], a[2] \o b[2]>>

----------------------------------------------------------------------------
(* The computations as closures.  A Reader, a State or a Writer holds a    *)
(* func g; every constructor returns a func literal that captures its      *)
(* arguments.  A closure is written as the tuple of the constructor that   *)
(* made it and what it captured (a Writer closure with its monoid second), *)
(* and the body of the func literal is what running the tuple does.  A     *)
(* func of the caller has a name, and a run gives the names of the funcs   *)
(* of the caller it invoked, in order.                                     *)

\* the funcs of one value a caller gives to New, Local, Map, Gets, Modify
CallerFuncs == {"inc", "zero"}

\* f(a)
Invoke(f, a) ==
    CASE f = "inc" -> (a + 1) % (MaxVal + 1)
      [] f = "zero" -> Zero

\* the funcs of two values a caller gives to Zip
CallerFuncs2 == {"add", "first"}

\* f(a, b); append is the func literal of state.Sequence
Invoke2(f, a, b) ==
    CASE f = "add" -> (a + b) % (MaxVal + 1)
      [] f = "first" -> a
      [] f = "append" -> Append(a, b)

\* the funcs that are the library's own
LibraryFuncs == {"append"}

\* the invocation of f as a run records it
Invoked(f) == IF f \in LibraryFuncs THEN <<>> ELSE <<f>>

\* the funcs a caller gives to reader.FlatMap: f(a) is a Reader
ReaderKleisliNames == {"pure", "ask", "new"}

ReaderKleisliCall(f, a) ==
    CASE f = "pure" -> <<"Pure", a>>
      [] f = "ask" -> <<"Ask">>
      [] f = "new" -> <<"New", IF a = Zero THEN "zero" ELSE "inc">>

\* the funcs a caller gives to state.FlatMap: f(a) is a State
StateKleisliNames == {"pure", "put", "gets"}

StateKleisliCall(f, a) ==
    CASE f = "pure" -> <<"Pure", a>>
      [] f = "put" -> <<"FlatMap", <<"Put", a>>, "get">>
      [] f = "get" -> <<"Get">>
      [] f = "gets" -> <<"Gets", IF a = Zero THEN "zero" ELSE "inc">>

\* the funcs a caller gives to writer.FlatMap: f(a) is a Writer
WriterKleisliNames == {"pure", "tell"}

WriterKleisliCall(f, a) ==
    CASE f = "pure" -> <<"Pure", "SliceMonoid", a>>
      [] f = "tell" -> <<"TellWithValue", "SliceMonoid", a, <<"x">>>>

\* r.g(e) of a Reader closure: <<value, funcs invoked>>
RECURSIVE ReaderG(_, _)
ReaderG(r, e) ==
    CASE r[1] = "Pure" -> <<r[2], <<>>>>
      [] r[1] = "New" -> <<Invoke(r[2], e), <<r[2]>>>>
      [] r[1] = "Ask" -> <<e, <<>>>>
      [] r[1] = "Local" ->
            LET x == ReaderG(r[2], Invoke(r[3], e))
            IN  <<x[1], <<r[3]>> \o x[2]>>
      [] r[1] = "Map" ->
            LET x == ReaderG(r[2], e)
            IN  <<Invoke(r[3], x[1]), x[2] \o <<r[3]>>>>
      [] r[1] = "Apply" ->
            LET fn == ReaderG(r[3], e)
                x == ReaderG(r[2], e)
            IN  <<Invoke(fn[1], x[1]), fn[2] \o x[2] \o <<fn[1]>>>>
      [] r[1] = "FlatMap" ->
            LET x == ReaderG(r[2], e)
                y == ReaderG(ReaderKleisliCall(r[3], x[1]), e)
            IN  <<y[1], x[2] \o <<r[3]>> \o y[2]>>
      [] r[1] = "Zip" ->
            LET x == ReaderG(r[2], e)
                y == ReaderG(r[3], e)
            IN  <<Invoke2(r[4], x[1], y[1]), x[2] \o y[2] \o <<r[4]>>>>

\* s.g(state) of a State closure: <<value, final state, funcs invoked>>
RECURSIVE StateG(_, _)
StateG(s, state) ==
    CASE s[1] = "Pure" -> <<s[2], state, <<>>>>
      [] s[1] = "Get" -> <<state, state, <<>>>>
      [] s[1] = "Gets" -> <<Invoke(s[2], state), state, <<s[2]>>>>
      [] s[1] = "Put" -> <<UnitValue, s[2], <<>>>>
      [] s[1] = "Modify" -> <<UnitValue, Invoke(s[2], state), <<s[2]>>>>
      [] s[1] = "Map" ->
            LET x == StateG(s[2], state)
            IN  <<Invoke(s[3], x[1]), x[2], x[3] \o <<s[3]>>>>
      [] s[1] = "Apply" ->
            LET x == StateG(s[2], state)
                fn == StateG(s[3], x[2])
            IN  <<Invoke(fn[1], x[1]), fn[2], x[3] \o fn[3] \o <<fn[1]>>>>
      [] s[1] = "FlatMap" ->
            LET x == StateG(s[2], state)
                y == StateG(StateKleisliCall(s[3], x[1]), x[2])
            IN  <<y[1], y[2], x[3] \o <<s[3]>> \o y[3]>>
      [] s[1] = "Zip" ->
            LET x == StateG(s[2], state)
                y == StateG(s[3], x[2])
            IN  <<Invoke2(s[4], x[1], y[1]), y[2],
                  x[3] \o y[3] \o Invoked(s[4])>>

\* w.g() of a Writer closure: <<value, output, funcs invoked>>, Empty and
\* Append being the funcs of the caller's monoid
RECURSIVE WriterG(_)
WriterG(w) ==
    CASE w[1] = "Pure" -> <<w[3], MonoidEmpty(w[2]), <<"Empty">>>>
      [] w[1] = "Tell" -> <<Zero, w[3], <<>>>>
      [] w[1] = "TellWithValue" -> <<w[3], w[4], <<>>>>
      [] w[1] = "Listen" ->
            LET x == WriterG(w[3])
            IN  <<[Value |-> x[1], Log |-> x[2]], x[2], x[3]>>
      [] w[1] = "Map" ->
            LET x == WriterG(w[3])
            IN  <<Invoke(w[4], x[1]), x[2], x[3] \o <<w[4]>>>>
      [] w[1] = "Apply" ->
            LET x == WriterG(w[3])
                fn == WriterG(w[4])
            IN  <<Invoke(fn[1], x[1]), MonoidAppend(w[2], x[2], fn[2]),
                  x[3] \o fn[3] \o <<fn[1], "Append">>>>
      [] w[1] = "FlatMap" ->
            LET x == WriterG(w[3])
                y == WriterG(WriterKleisliCall(w[4], x[1]))
            IN  <<y[1], MonoidAppend(w[2], x[2], y[2]),
                  x[3] \o <<w[4]>> \o y[3] \o <<"Append">>>>
      [] w[1] = "Zip" ->
            LET x == WriterG(w[3])
                y == WriterG(w[4])
            IN  <<Invoke2(w[5], x[1], y[1]), MonoidAppend(w[2], x[2], y[2]),
                  x[3] \o y[3] \o <<w[5], "Append">>>>

\* a constructor gives <<closure, funcs invoked while constructing>>
NoCalls == <<>>

\* reader.Map, had it run r on the zero environment and invoked f while
\* constructing
BuildReaderMap_Eager(r, f) ==
    LET x == ReaderG(r, Zero)
    IN  <<<<"Pure", Invoke(f, x[1])>>, x[2] \o <<f>>>>

BuildReaderPure(a) == <<<<"Pure", a>>, NoCalls>>

BuildReaderNew(f) == <<<<"New", f>>, NoCalls>>

BuildReaderAsk == <<<<"Ask">>, NoCalls>>

BuildReaderLocal(r, f) == <<<<"Local", r, f>>, NoCalls>>

BuildReaderMap(r, f) == <<<<"Map", r, f>>, NoCalls>>

BuildReaderApply(r, f) == <<<<"Apply", r, f>>, NoCalls>>

BuildReaderFlatMap(r, f) == <<<<"FlatMap", r, f>>, NoCalls>>

\* FlatMap(ra, a => Map(rb, b => f(a, b)))
BuildReaderZip(ra, rb, f) == <<<<"Zip", ra, rb, f>>, NoCalls>>

BuildStatePure(a) == <<<<"Pure", a>>, NoCalls>>

BuildStateGet == <<<<"Get">>, NoCalls>>

BuildStateGets(f) == <<<<"Gets", f>>, NoCalls>>

BuildStatePut(state) == <<<<"Put", state>>, NoCalls>>

BuildStateModify(f) == <<<<"Modify", f>>, NoCalls>>

BuildStateMap(s, f) == <<<<"Map", s, f>>, NoCalls>>

BuildStateApply(s, f) == <<<<"Apply", s, f>>, NoCalls>>

BuildStateFlatMap(s, f) == <<<<"FlatMap", s, f>>, NoCalls>>

BuildStateZip(sa, sb, f) == <<<<"Zip", sa, sb, f>>, NoCalls>>

\* the loop of state.Sequence: one Zip for each element
RECURSIVE BuildStateSequenceLoop(_, _)
BuildStateSequenceLoop(values, states) ==
    IF states = <<>> THEN values
    ELSE LET zip == BuildStateZip(values[1], Head(states), "append")
         IN  BuildStateSequenceLoop(<<zip[1], values[2] \o zip[2]>>,
                                    Tail(states))

BuildStateSequence(states) ==
    BuildStateSequenceLoop(BuildStatePure(<<>>), states)

BuildWriterPure(a, m) == <<<<"Pure", m, a>>, NoCalls>>

BuildWriterTell(w, m) == <<<<"Tell", m, w>>, NoCalls>>

BuildWriterTellWithValue(a, w, m) == <<<<"TellWithValue", m, a, w>>, NoCalls>>

\* the monoid of a Writer closure
MonoidOf(w) == w[2]

BuildWriterListen(w) == <<<<"Listen", MonoidOf(w), w>>, NoCalls>>

BuildWriterMap(w, f) == <<<<"Map", MonoidOf(w), w, f>>, NoCalls>>

BuildWriterApply(w, f) == <<<<"Apply", MonoidOf(w), w, f>>, NoCalls>>

BuildWriterFlatMap(w, f) == <<<<"FlatMap", MonoidOf(w), w, f>>, NoCalls>>

BuildWriterZip(wa, wb, f) == <<<<"Zip", MonoidOf(wa), wa, wb, f>>, NoCalls>>

----------------------------------------------------------------------------
(* The client of the closures: it constructs a computation, composes it   *)
(* with up to MaxBuild combinators, and runs it any number of times,       *)
(* before or after composing it further.                                   *)

MaxBuild == 2

\* the computations a client gives as the second operand
ReaderOperands ==
    {BuildReaderAsk[1], BuildReaderNew("inc")[1], BuildReaderPure(MaxVal)[1]}

ReaderFuncOperands == {BuildReaderPure(f)[1] : f \in CallerFuncs}

\* the last modifies the state and gives the new one
StateOperands ==
    {BuildStateGet[1], BuildStateGets("inc")[1],
     BuildStateFlatMap(BuildStateModify("inc")[1], "get")[1]}

StateFuncOperands == {BuildStatePure(f)[1] : f \in CallerFuncs}

\* the lists a client gives to Sequence
StateOperandLists == UNION {[1..n -> StateOperands] : n \in 0..MaxSeq}

WriterOperands ==
    {BuildWriterTellWithValue(MaxVal, <<"y">>, m)[1] : m \in SliceMonoids}

WriterFuncOperands ==
    {BuildWriterTellWithValue(f, <<"y">>, "SliceMonoid")[1] : f \in CallerFuncs}

NoRuns == <<>>

\* the client before its first constructor call
NoComp == <<"none", <<>>, 0, "none">>

\* a constructor call: c is what the constructor gives, of is the type of
\* the value of the computation, n the combinators it was composed with
Construct(type, of, n, c) ==
    /\ comp' = <<type, c[1], n, of>>
    /\ invoked' = <<"construct", c[2]>>
    /\ runs' = NoRuns
    /\ UNCHANGED <<cvars, svars, wvars, rvars, law>>

\* the client holds a computation of the type whose value is a Val
Holds(type) == comp[1] = type /\ comp[4] = "Val" /\ comp[3] < MaxBuild

\* a Run with x: r is what g gave; runs keeps the last two Runs
Ran(x, r) ==
    /\ runs' = IF runs = NoRuns THEN <<<<x, r>>>>
               ELSE <<runs[Len(runs)], <<x, r>>>>
    /\ invoked' = <<"Run", r[Len(r)]>>
    /\ UNCHANGED <<cvars, svars, wvars, rvars, law, comp>>

ConstructReader ==
    /\ comp = NoComp
    /\ \/ \E a \in Val : Construct("Reader", "Val", 0, BuildReaderPure(a))
       \/ \E f \in CallerFuncs : Construct("Reader", "Val", 0, BuildReaderNew(f))
       \/ Construct("Reader", "Val", 0, BuildReaderAsk)

ComposeReader ==
    /\ Holds("Reader")
    /\ \/ \E f \in CallerFuncs :
            Construct("Reader", "Val", comp[3] + 1, BuildReaderLocal(comp[2], f))
       \/ \E f \in CallerFuncs :
            Construct("Reader", "Val", comp[3] + 1, BuildReaderMap(comp[2], f))
       \/ \E f \in ReaderFuncOperands :
            Construct("Reader", "Val", comp[3] + 1, BuildReaderApply(comp[2], f))
       \/ \E f \in ReaderKleisliNames :
            Construct("Reader", "Val", comp[3] + 1, BuildReaderFlatMap(comp[2], f))
       \/ \E rb \in ReaderOperands, f \in CallerFuncs2 :
            Construct("Reader", "Val", comp[3] + 1, BuildReaderZip(comp[2], rb, f))

RunReader ==
    /\ comp[1] = "Reader"
    /\ \E e \in Val : Ran(e, ReaderG(comp[2], e))

ConstructState ==
    /\ comp = NoComp
    /\ \/ \E a \in Val : Construct("State", "Val", 0, BuildStatePure(a))
       \/ Construct("State", "Val", 0, BuildStateGet)
       \/ \E f \in CallerFuncs : Construct("State", "Val", 0, BuildStateGets(f))
       \/ \E s \in Val : Construct("State", "Unit", 0, BuildStatePut(s))
       \/ \E f \in CallerFuncs :
            Construct("State", "Unit", 0, BuildStateModify(f))
       \/ \E states \in StateOperandLists :
            Construct("State", "List", 0, BuildStateSequence(states))

ComposeState ==
    \/ /\ Holds("State")
       /\ \/ \E f \in CallerFuncs :
               Construct("State", "Val", comp[3] + 1, BuildStateMap(comp[2], f))
          \/ \E f \in StateFuncOperands :
               Construct("State", "Val", comp[3] + 1, BuildStateApply(comp[2], f))
          \/ \E f \in StateKleisliNames :
               Construct("State", "Val", comp[3] + 1, BuildStateFlatMap(comp[2], f))
          \/ \E sb \in StateOperands, f \in CallerFuncs2 :
               Construct("State", "Val", comp[3] + 1, BuildStateZip(comp[2], sb, f))
    \* after a Put or a Modify, a func that takes the Unit
    \/ /\ comp[1] = "State" /\ comp[4] = "Unit" /\ comp[3] < MaxBuild
       /\ Construct("State", "Val", comp[3] + 1, BuildStateFlatMap(comp[2], "get"))

RunState ==
    /\ comp[1] = "State"
    /\ \E state \in Val : Ran(state, StateG(comp[2], state))

ConstructWriter ==
    /\ comp = NoComp
    /\ \E m \in SliceMonoids :
        \/ \E a \in Val : Construct("Writer", "Val", 0, BuildWriterPure(a, m))
        \/ Construct("Writer", "Val", 0, BuildWriterTell(<<"x">>, m))
        \/ \E a \in Val :
            Construct("Writer", "Val", 0, BuildWriterTellWithValue(a, <<"x">>, m))

ComposeWriter ==
    /\ Holds("Writer")
    /\ \/ Construct("Writer", "Listen", comp[3] + 1, BuildWriterListen(comp[2]))
       \/ \E f \in CallerFuncs :
            Construct("Writer", "Val", comp[3] + 1, BuildWriterMap(comp[2], f))
       \/ \E f \in WriterFuncOperands :
            Construct("Writer", "Val", comp[3] + 1, BuildWriterApply(comp[2], f))
       \/ \E f \in WriterKleisliNames :
            Construct("Writer", "Val", comp[3] + 1, BuildWriterFlatMap(comp[2], f))
       \/ \E wb \in WriterOperands, f \in CallerFuncs2 :
            Construct("Writer", "Val", comp[3] + 1, BuildWriterZip(comp[2], wb, f))

RunWriter ==
    /\ comp[1] = "Writer"
    /\ Ran(NoArgs, WriterG(comp[2]))

InitClosures ==
    /\ comp = NoComp
    /\ invoked = <<"none", NoCalls>>
    /\ runs = NoRuns

NextClosures ==
    \/ ConstructReader \/ ComposeReader \/ RunReader
    \/ ConstructState \/ ComposeState \/ RunState
    \/ ConstructWriter \/ ComposeWriter \/ RunWriter

----------------------------------------------------------------------------
(* Claims about the closures, checked under SpecClosures *)

----------------------------------------------------------------------------
(* The laws of the six types.  One step evaluates the two sides of a law   *)
(* on inputs drawn from the pools of the clients; every evaluation is a    *)
(* case of its own, started from the state where none was made.            *)

NoLaw == <<"none">>

Evaluate(name, type, inputs, lhs, rhs, calls) ==
    /\ law = NoLaw
    /\ law' = <<name, type, inputs, lhs, rhs, calls>>
    /\ UNCHANGED <<cvars, svars, wvars, rvars, comp, invoked, runs>>

\* Pure(a).FlatMap(f) and f(a)
OptionLeftIdentity ==
    \E a \in Val, f \in [Val -> OptionPool] :
        \/ LET r == OptionFlatMap(Some(a), f)
           IN  Evaluate("LeftIdentity", "Option", <<a, f>>, r.ret, f[a], r.calls)
        \/ LET r == Option_FlatMap(Some(a), f)
           IN  Evaluate("LeftIdentity", "Option", <<a, f>>, r.ret, f[a], r.calls)

ResultLeftIdentity ==
    \E a \in Val, f \in ResultFns :
        \/ LET r == ResultFlatMap(Ok(a), f)
           IN  Evaluate("LeftIdentity", "Result", <<a, f>>, r.ret, f[a], r.calls)
        \/ LET r == Result_FlatMap(Ok(a), f)
           IN  Evaluate("LeftIdentity", "Result", <<a, f>>, r.ret, f[a], r.calls)

EitherLeftIdentity ==
    \E a \in Val, f \in [Val -> EitherPool] :
        \/ LET r == EitherFlatMap(Right(a), f)
           IN  Evaluate("LeftIdentity", "Either", <<a, f>>, r.ret, f[a], r.calls)
        \/ LET r == Either_FlatMap(Right(a), f)
           IN  Evaluate("LeftIdentity", "Either", <<a, f>>, r.ret, f[a], r.calls)

ReaderLeftIdentity ==
    \E a \in Val, f \in ReaderKleislis :
        \/ Evaluate("LeftIdentity", "Reader", <<a, f>>,
                    ReaderFlatMap(ReaderPure(Val, a), f), f[a], 0)
        \/ Evaluate("LeftIdentity", "Reader", <<a, f>>,
                    Reader_FlatMap(ReaderPure(Val, a), f), f[a], 0)

StateLeftIdentity ==
    \E a \in StateVals, f \in StateKleislis :
        \/ Evaluate("LeftIdentity", "State", <<a, f>>,
                    StateFlatMap(StatePure(Val, a), f), f[a], 0)
        \/ Evaluate("LeftIdentity", "State", <<a, f>>,
                    State_FlatMap(StatePure(Val, a), f), f[a], 0)

\* the monoid goes with the inputs
WriterLeftIdentity ==
    \E a \in Val, m \in Monoids :
        \E f \in WriterKleislis(m) :
            \/ Evaluate("LeftIdentity", "Writer", <<a, f, m>>,
                        WriterFlatMap(WriterPure(a, m), f), f[a], 0)
            \/ Evaluate("LeftIdentity", "Writer", <<a, f, m>>,
                        Writer_FlatMap(WriterPure(a, m), f), f[a], 0)

\* c.FlatMap(f).FlatMap(g) and c.FlatMap(x => f(x).FlatMap(g))
ReaderAssociativity ==
    \E c \in ReaderPool \cup {ReaderPure(Val, a) : a \in Val} :
        \E f \in ReaderKleislis, g \in ReaderKleislis :
            Evaluate("Associativity", "Reader", <<c, f, g>>,
                     ReaderFlatMap(ReaderFlatMap(c, f), g),
                     ReaderFlatMap(c, [x \in Val |-> ReaderFlatMap(f[x], g)]),
                     0)

StateAssociativity ==
    \E c \in StatePool, f \in StateKleislis, g \in StateKleislis :
        Evaluate("Associativity", "State", <<c, f, g>>,
                 StateFlatMap(StateFlatMap(c, f), g),
                 StateFlatMap(c, [x \in StateVals |-> StateFlatMap(f[x], g)]),
                 0)

WriterAssociativity ==
    \E m \in Monoids :
        \E c \in WriterPool(m), f \in WriterKleislis(m), g \in WriterKleislis(m) :
            Evaluate("Associativity", "Writer", <<c, f, g>>,
                     WriterFlatMap(WriterFlatMap(c, f), g),
                     WriterFlatMap(c, [x \in Val |-> WriterFlatMap(f[x], g)]),
                     0)

\* the writer w carrying the monoid m in place of its own
WithMonoid(w, m) == [g |-> w.g, monoid |-> m]

\* Map and Listen of a writer, by the function and by the method
WriterMonoidOfMap ==
    \E m \in SliceMonoids :
        \E w \in WriterPool(m), f \in Fns :
            \/ Evaluate("Monoid(Map)", "Writer", <<w, f>>,
                        WriterMap(w, f), Writer_Map(w, f), 0)
            \/ Evaluate("Monoid(Listen)", "Writer", <<w, f>>,
                        WriterListen(w), WriterListen(w), 0)

\* a combinator of two writers of different monoids, and the same with
\* the second writer carrying the monoid of the first
WriterMonoidOfApply ==
    \E m1 \in SliceMonoids, m2 \in SliceMonoids :
        \E w \in WriterPool(m1), f \in WriterFnPool(m2) :
            Evaluate("Monoid(Apply)", "Writer", <<w, f>>,
                     WriterApply(w, f), WriterApply(w, WithMonoid(f, m1)), 0)

WriterMonoidOfFlatMap ==
    \E m1 \in SliceMonoids, m2 \in SliceMonoids :
        \E w \in WriterPool(m1), f \in WriterKleislis(m2) :
            Evaluate("Monoid(FlatMap)", "Writer", <<w, f>>,
                     WriterFlatMap(w, f),
                     WriterFlatMap(w, [a \in Val |-> WithMonoid(f[a], m1)]), 0)

WriterMonoidOfZip ==
    \E m1 \in SliceMonoids, m2 \in SliceMonoids :
        \E wa \in WriterPool(m1), wb \in WriterPool(m2), f \in WriterZipFns :
            Evaluate("Monoid(Zip)", "Writer", <<wa, wb, f>>,
                     WriterZip(wa, wb, f),
                     WriterZip(wa, WithMonoid(wb, m1), f), 0)

\* w.FlatMap(f).FlatMap(g), the writers of f and g of another monoid
WriterMonoidOfChain ==
    \E m1 \in SliceMonoids, m2 \in SliceMonoids :
        \E w \in WriterPool(m1), f \in WriterKleislis(m2),
           g \in WriterKleislis(m2) :
            Evaluate("Monoid(Chain)", "Writer", <<w, f, g>>,
                     WriterFlatMap(WriterFlatMap(w, f), g),
                     WriterFlatMap(
                         WriterFlatMap(w, [a \in Val |-> WithMonoid(f[a], m1)]),
                         [a \in Val |-> WithMonoid(g[a], m1)]), 0)

\* w.FlatMap(x => wb.FlatMap(g)), wb and the writers of g of another monoid
WriterMonoidOfNested ==
    \E m1 \in SliceMonoids, m2 \in SliceMonoids :
        \E w \in WriterPool(m1), wb \in WriterPool(m2),
           g \in WriterKleislis(m2) :
            Evaluate("Monoid(Nested)", "Writer", <<w, wb, g>>,
                     WriterFlatMap(w, [x \in Val |-> WriterFlatMap(wb, g)]),
                     WriterFlatMap(w, [x \in Val |->
                         WriterFlatMap(WithMonoid(wb, m1),
                             [a \in Val |-> WithMonoid(g[a], m1)])]), 0)

\* the Readers a Local is built on: they read the environment
LocalReaders == ReaderPool \cup {ReaderPure(Val, a) : a \in Val}

\* Local(Local(r, f), g), and the Local of r with g then f
ReaderLocalOfLocal ==
    \E r \in LocalReaders, f \in Fns, g \in Fns :
        Evaluate("Local(Local)", "Reader", <<r, f, g>>,
                 ReaderLocal(ReaderLocal(r, f), g),
                 ReaderLocal(r, [e \in Val |-> f[g[e]]]), 0)

\* Local(FlatMap(r, k), f), and the FlatMap of the Locals of r and of the
\* readers k returns
ReaderLocalOfFlatMap ==
    \E r \in LocalReaders, f \in Fns, k \in ReaderKleislis :
        Evaluate("Local(FlatMap)", "Reader", <<r, f, k>>,
                 ReaderLocal(ReaderFlatMap(r, k), f),
                 ReaderFlatMap(ReaderLocal(r, f),
                               [a \in Val |-> ReaderLocal(k[a], f)]), 0)

\* FlatMap(Local(r, f), k), by the function and by the method
ReaderFlatMapOfLocal ==
    \E r \in LocalReaders, f \in Fns, k \in ReaderKleislis :
        Evaluate("FlatMap(Local)", "Reader", <<r, f, k>>,
                 ReaderFlatMap(ReaderLocal(r, f), k),
                 Reader_FlatMap(ReaderLocal(r, f), k), 0)

InitLaws == law = NoLaw

NextLaws ==
    \/ OptionLeftIdentity \/ ResultLeftIdentity \/ EitherLeftIdentity
    \/ ReaderLeftIdentity \/ StateLeftIdentity \/ WriterLeftIdentity
    \/ ReaderAssociativity \/ StateAssociativity \/ WriterAssociativity
    \/ ReaderLocalOfLocal \/ ReaderLocalOfFlatMap \/ ReaderFlatMapOfLocal
    \/ WriterMonoidOfMap \/ WriterMonoidOfApply \/ WriterMonoidOfFlatMap
    \/ WriterMonoidOfZip \/ WriterMonoidOfChain \/ WriterMonoidOfNested

----------------------------------------------------------------------------
(* Claims about the laws, checked under SpecLaws *)

\* empty() is a left identity of append, on the outputs of the model
LeftIdentityOfAppend(m) ==
    \A w \in Logs : MonoidAppend(m, MonoidEmpty(m), w) = w

\* C21: Pure(a).FlatMap(f) equals f(a): for Option, Result and Either, with
\* Some(a), Ok(a), Right(a) as Pure, the two are the same container and f
\* is invoked exactly once; for Reader and State the two give the same Run
\* result on every environment and on every initial state; for Writer the
\* two give the same value, the output of the left side is
\* append(empty(), output of f(a)), and that is the output of f(a) when
\* empty() is a left identity of append.
C21_LeftIdentity ==
    law[1] = "LeftIdentity" =>
        LET type == law[2]
            lhs == law[4]
            rhs == law[5]
        IN  /\ type \in {"Option", "Result", "Either"} =>
                  (lhs = rhs /\ law[6] = 1)
            /\ type = "Reader" =>
                  \A e \in Val : ReaderRun(lhs, e) = ReaderRun(rhs, e)
            /\ type = "State" =>
                  \A s \in Val : StateRun(lhs, s) = StateRun(rhs, s)
            /\ type = "Writer" =>
                  LET m == law[3][3]
                  IN  /\ WriterRun(lhs)[1] = WriterRun(rhs)[1]
                      /\ WriterRun(lhs)[2] =
                            MonoidAppend(m, MonoidEmpty(m), WriterRun(rhs)[2])
                      /\ LeftIdentityOfAppend(m) =>
                            WriterRun(lhs)[2] = WriterRun(rhs)[2]

\* a Writer whose f(a) has an output
C21_Witness ==
    /\ law[1] = "LeftIdentity"
    /\ law[2] = "Writer"
    /\ WriterRun(law[5])[2] # <<>>
    /\ WriterRun(law[4]) = WriterRun(law[5])

\* append is associative, on the outputs w1, w2, w3
AssociativeOn(m, w1, w2, w3) ==
    MonoidAppend(m, MonoidAppend(m, w1, w2), w3)
        = MonoidAppend(m, w1, MonoidAppend(m, w2, w3))

\* C23: c.FlatMap(f).FlatMap(g) and c.FlatMap(x => f(x).FlatMap(g)) give
\* equal Run results: for Reader on every environment, for State on every
\* initial state (value and final state), for Writer the same value and,
\* append being associative, the same accumulated output.
C23_Associativity ==
    law[1] = "Associativity" =>
        LET type == law[2]
            lhs == law[4]
            rhs == law[5]
        IN  /\ type = "Reader" =>
                  \A e \in Val : ReaderRun(lhs, e) = ReaderRun(rhs, e)
            /\ type = "State" =>
                  \A s \in Val : StateRun(lhs, s) = StateRun(rhs, s)
            /\ type = "Writer" =>
                  LET c == law[3][1]
                      f == law[3][2]
                      g == law[3][3]
                      r1 == WriterRun(c)
                      r2 == WriterRun(f[r1[1]])
                      r3 == WriterRun(g[r2[1]])
                  IN  /\ WriterRun(lhs)[1] = WriterRun(rhs)[1]
                      /\ WriterRun(lhs)[1] = r3[1]
                      /\ AssociativeOn(c.monoid, r1[2], r2[2], r3[2]) =>
                            WriterRun(lhs)[2] = WriterRun(rhs)[2]

\* a State c that changes the state, an f whose State depends on the value
\* of c and changes the state again, and a g that reads it
C23_Witness ==
    /\ law[1] = "Associativity"
    /\ law[2] = "State"
    /\ \E s \in Val :
          LET c == law[3][1]
              f == law[3][2]
              g == law[3][3]
              r1 == StateRun(c, s)
              r2 == StateRun(f[r1[1]], r1[2])
              r3 == StateRun(g[r2[1]], r2[2])
          IN  /\ r1[2] # s
              /\ r2[2] # r1[2]
              /\ r3[1] = r2[2]
              /\ StateRun(law[4], s) = r3
              /\ StateRun(law[5], s) = r3

\* a Reader run on the environment e1 and then the Reader that k returns
\* for its value run on e2: <<value, funcs that ran>>
RunThen(r, e1, k, e2) ==
    LET first == ReaderRun(r, e1)
        second == ReaderRun(k[first[1]], e2)
    IN  <<second[1], first[2] \o second[2]>>

\* C29: Local(Local(r, f), g).Run(e) = r.Run(f(g(e))); Local(FlatMap(r, k),
\* f).Run(e) runs r and the reader k returns both on f(e); and
\* FlatMap(Local(r, f), k).Run(e) runs r on f(e) and the reader k returns
\* on e itself.
C29_LocalCoversItsReader ==
    /\ law[1] = "Local(Local)" =>
          \A e \in Val :
              LET r == law[3][1]
                  f == law[3][2]
                  g == law[3][3]
              IN  /\ ReaderRun(law[4], e) = ReaderRun(r, f[g[e]])
                  /\ ReaderRun(law[5], e) = ReaderRun(law[4], e)
    /\ law[1] = "Local(FlatMap)" =>
          \A e \in Val :
              LET r == law[3][1]
                  f == law[3][2]
                  k == law[3][3]
              IN  /\ ReaderRun(law[4], e) = RunThen(r, f[e], k, f[e])
                  /\ ReaderRun(law[5], e) = ReaderRun(law[4], e)
    /\ law[1] = "FlatMap(Local)" =>
          \A e \in Val :
              LET r == law[3][1]
                  f == law[3][2]
                  k == law[3][3]
              IN  /\ ReaderRun(law[4], e) = RunThen(r, f[e], k, e)
                  /\ ReaderRun(law[5], e) = ReaderRun(law[4], e)

\* FlatMap(Local(r, f), k) where r and the reader of k both give the
\* environment they see, and f changes it
C29_Witness ==
    /\ law[1] = "FlatMap(Local)"
    /\ law[3][1] = ReaderAsk(Val)
    /\ \E e \in Val :
          LET f == law[3][2]
              k == law[3][3]
          IN  /\ f[e] # e
              /\ k[f[e]] = ReaderAsk(Val)
              /\ ReaderRun(law[4], e)[1] = e
              /\ RunThen(law[3][1], f[e], k, f[e])[1] = f[e]

\* the laws that build one combinator, or a chain on the receiver
MonoidLaws ==
    {"Monoid(Map)", "Monoid(Listen)", "Monoid(Apply)", "Monoid(FlatMap)",
     "Monoid(Zip)", "Monoid(Chain)"}

\* the result carries the monoid of the first writer, and is the one built
\* from writers that all carry that monoid
ByFirstMonoid ==
    /\ law[4].monoid = law[3][1].monoid
    /\ law[4].g[2] = law[5].g[2]
    /\ law[4].g[1] = law[5].g[1]

\* C30: Map, Listen, Apply, FlatMap and Zip give their result the monoid
\* of their first writer and append with it, whatever monoid the second
\* writer or the writer of the FlatMap func carries, and so does a chain
\* of FlatMaps on a receiver; a writer composed inside the FlatMap func
\* appends its own outputs with its own monoid.
C30_MonoidOfFirstOperand ==
    /\ law[1] \in MonoidLaws => ByFirstMonoid
    /\ law[1] = "Monoid(Nested)" =>
          LET w == law[3][1]
              wb == law[3][2]
              g == law[3][3]
          IN  /\ law[4].monoid = w.monoid
              /\ law[4].g[2] =
                     MonoidAppend(w.monoid, w.g[2],
                         MonoidAppend(wb.monoid, wb.g[2], g[wb.g[1]].g[2]))

\* w.FlatMap(x => wb.FlatMap(g)) where w appends and wb prepends, each
\* with an output: the output of g comes before that of wb, after that of w
C30_Witness ==
    /\ law[1] = "Monoid(Nested)"
    /\ law[3][1].monoid = "SliceMonoid"
    /\ law[3][2].monoid = "PrependMonoid"
    /\ law[3][1].g[2] = <<"x">>
    /\ law[3][2].g[2] = <<"y">>
    /\ law[4].monoid = "SliceMonoid"
    /\ law[4].g[2] = <<"x", "x", "y">>
    /\ law[5].g[2] = <<"x", "y", "x">>

\* C30 as stated: in every composed computation every append is that of
\* the monoid of the leftmost writer
C30_EveryAppendByLeftmost ==
    law[1] \in MonoidLaws \cup {"Monoid(Nested)"} => ByFirstMonoid

----------------------------------------------------------------------------
(* Specifications *)

Init ==
    /\ InitContainers
    /\ InitState
    /\ InitWriter
    /\ InitReader
    /\ InitLaws
    /\ InitClosures

\* the client of Option, Result and Either
Spec == Init /\ [][Next]_vars

\* the client of the closures
SpecClosures == Init /\ [][NextClosures]_vars

\* the client of State
SpecState == Init /\ [][NextState]_vars

\* the client of Writer
SpecWriter == Init /\ [][NextWriter]_vars

\* the client of Reader
SpecReader == Init /\ [][NextReader]_vars

\* the client of the diagnostics
SpecDiagnostic == Init /\ [][NextDiagnostic]_vars

\* the client of the Sequence functions and of the validation example
SpecLists == Init /\ [][NextLists]_vars

\* the evaluation of the laws
SpecLaws == Init /\ [][NextLaws]_vars

====
